---- MODULE Spec2Model ----
(***************************************************************************)
(* A model of the introspection layer of boa/contracts/vyper/              *)
(* vyper_contract.py: the storage key unwinder, the storage introspector,  *)
(* the source position lookups, the stack trace reconstructor and the      *)
(* error matcher.  Every component is a pure function of inputs the VM or  *)
(* the compiler supplies; each has its own specification whose initial     *)
(* states enumerate those inputs and whose action applies the function.    *)
(* The last component is the browser bridge of boa/integrations/jupyter/   *)
(* browser.py, a process that polls a shared-memory block.                 *)
(***************************************************************************)
EXTENDS Integers, Sequences, FiniteSets, TLC

VARIABLES
    pc,             \* "ready" before the operation under study has run, "done" after
    sha3_trace,     \* env.sha3_trace: digest (bytes) -> preimage
    uw_key,         \* the key handed to unwrap_storage_key
    uw_result,      \* what unwrap_storage_key returned (or how it failed)
    contract,       \* self: the VyperContract whose method is called
    computation,    \* the computation handed to the method
    src_fn,         \* which source position lookup is under study
    src_result,     \* what the lookup returned
    env_contracts,  \* env.lookup_contract: address -> registered contract
    call_chain,     \* the call levels the computation was recorded from, outermost first
    st_result,      \* what stack_trace returned
    error,          \* the BoaError handed to check_boa_error_matches
    expectation,    \* its *args and **kwargs
    match_result,   \* how check_boa_error_matches ended
    writes,         \* the SSTOREs the VM executed: (address, slot, mapping keys) -> value
    sstore_trace,   \* env.sstore_trace: address -> the storage keys written there
    account_db,     \* vm.state._account_db: address -> storage key -> stored word
    storage_var,    \* self: the StorageVar that is read
    get_result,     \* what StorageVar.get returned
    storage_model,  \* self: the StorageModel, variable name -> StorageVar
    dump_result,    \* what StorageModel.dump returned (or how it failed)
    dl_contract,    \* self: the VyperContract whose decode_log is called
    dl_values,      \* the argument values the log entry was emitted with
    dl_entry,       \* e: the raw log entry (log_id, address, topics, data)
    dl_result,      \* what decode_log returned (or how it failed)
    gl_contracts,   \* env.lookup_contract: address -> registered contract
    gl_emissions,   \* the LOGs the VM executed, in order: who emitted which event
    gl_computation, \* the computation handed to get_logs
    gl_include_child_logs,
    gl_result,      \* what get_logs returned (or how it failed)
    pcd_fn,         \* self: the VyperFunction whose prepare_calldata is called
    pcd_args,       \* *args
    pcd_kwargs,     \* **kwargs: keyword name -> value
    pcd_result,     \* what prepare_calldata returned (or how it failed)
    insp_contract,  \* self: the VyperContract that is inspected
    insp_computation, \* the computation that is inspected
    insp_op,        \* the inspection operation that has run
    insp_result,    \* what it returned
    ses_contract,   \* self: a deployed VyperContract with its caches
    ses_executions, \* how many times env.execute_code has run for it
    ses_steps,      \* how many operations have been applied to it
    br_host,        \* the host: is colab_eval_js there, is an event loop running
    br_blocks,      \* the linked shared-memory blocks: name -> buffer
    br_call,        \* the _javascript_call in progress, or how the last one ended
    br_time,        \* loop.time(), counted from the start of the call in progress
    br_calls        \* how many calls have been started

unwrap_vars == <<uw_key, uw_result>>
source_vars == <<contract, computation, src_fn, src_result>>
trace_vars == <<env_contracts, call_chain, st_result>>
match_vars == <<error, expectation, match_result>>
storage_vars == <<writes, sstore_trace, account_db, storage_var, get_result>>
dump_vars == <<storage_model, dump_result>>
decode_log_vars == <<dl_contract, dl_values, dl_entry, dl_result>>
get_logs_vars == <<gl_contracts, gl_emissions, gl_computation, gl_include_child_logs,
                   gl_result>>
calldata_vars == <<pcd_fn, pcd_args, pcd_kwargs, pcd_result>>
inspect_vars == <<insp_contract, insp_computation, insp_op, insp_result>>
session_vars == <<ses_contract, ses_executions, ses_steps>>
browser_vars == <<br_host, br_blocks, br_call, br_time, br_calls>>
later_vars == <<dump_vars, decode_log_vars, get_logs_vars, calldata_vars, inspect_vars,
                session_vars, browser_vars>>
vars == <<pc, sha3_trace, unwrap_vars, source_vars, trace_vars, match_vars, storage_vars,
          later_vars>>

(***************************************************************************)
(* Values.  Python's None for a string-valued field; 32-byte words, which  *)
(* the code meets as int or as bytes (to_bytes / to_int convert).          *)
(***************************************************************************)
None == "<None>"
\* None where the field otherwise holds an AST node
NoNode == [none |-> TRUE]
\* None where the field otherwise holds a DevReason
NoDevReason == [none |-> TRUE]
\* None where the field otherwise holds a FrameDetail
NoFrame == [none |-> TRUE]
\* the empty dict
EmptyDict == <<>>

PartialFns(S, T) == UNION { [D -> T] : D \in SUBSET S }
SeqsUpTo(S, n) == UNION { [1 .. m -> S] : m \in 0 .. n }

Word(n) == [t |-> "int", v |-> n]
Bytes32(n) == [t |-> "bytes", v |-> n]

to_bytes(x) == [t |-> "bytes", v |-> x.v]
to_int(x) == [t |-> "int", v |-> x.v]

(***************************************************************************)
(* Bounds of the unwinder's inputs.                                        *)
(***************************************************************************)
MaxWord == 3            \* words are 0..MaxWord; 1..MaxWord may be digests
SubKeys == {1, 2}       \* the encoded sub-keys a preimage may end with

Words == 0 .. MaxWord
DigestWords == 1 .. MaxWord
\* Python's recursion limit, scaled: deeper than any acyclic chain over DigestWords
RecursionLimit == MaxWord + 2

Preimages == [slot : {Bytes32(w) : w \in Words}, k : {Bytes32(s) : s \in SubKeys}]

\* every preimage database over the digests, well-formed or not
Sha3Dbs ==
    UNION { [ {Bytes32(w) : w \in D} -> Preimages ] : D \in SUBSET DigestWords }

(***************************************************************************)
(* unwrap_storage_key.  The inner unwrap(k) recurses on the first 32 bytes *)
(* of k's preimage and appends on return; a recursion deeper than the      *)
(* interpreter allows raises RecursionError.                               *)
(***************************************************************************)
Returned(path) == [ok |-> TRUE, path |-> path]
RecursionError == [ok |-> FALSE, path |-> <<>>]

RECURSIVE unwrap(_, _, _, _)
unwrap(sha3_db, k, path, depth) ==
    IF depth > RecursionLimit THEN RecursionError
    ELSE LET k_bytes == to_bytes(k) IN
         IF k_bytes \in DOMAIN sha3_db
         THEN LET preimage == sha3_db[k_bytes]
                  r == unwrap(sha3_db, preimage.slot, path, depth + 1)
              IN  IF r.ok THEN Returned(Append(r.path, preimage.k)) ELSE r
         ELSE Returned(Append(path, k))

\* a unwinder that appends before it recurses: leaf-to-root order
RECURSIVE unwrap_leaf_first(_, _, _, _)
unwrap_leaf_first(sha3_db, k, path, depth) ==
    IF depth > RecursionLimit THEN RecursionError
    ELSE LET k_bytes == to_bytes(k) IN
         IF k_bytes \in DOMAIN sha3_db
         THEN LET preimage == sha3_db[k_bytes]
              IN  unwrap_leaf_first(sha3_db, preimage.slot,
                                    Append(path, preimage.k), depth + 1)
         ELSE Returned(Append(path, k))

unwrap_storage_key_leaf_first(sha3_db, k) == unwrap_leaf_first(sha3_db, k, <<>>, 1)

unwrap_storage_key(sha3_db, k) == unwrap(sha3_db, k, <<>>, 1)

(***************************************************************************)
(* Specification of the unwinder: any database, any key.                   *)
(***************************************************************************)
UnwrapIdle ==
    /\ uw_key = Word(0)
    /\ uw_result = Returned(<<>>)

SourceIdle ==
    /\ contract = [source_map |-> [pc_pos_map |-> EmptyDict], ast_map |-> EmptyDict]
    /\ computation = [code |-> [_trace |-> <<>>]]
    /\ src_fn = "none"
    /\ src_result = None

TraceIdle ==
    /\ env_contracts = EmptyDict
    /\ call_chain = <<>>
    /\ st_result = <<>>

MatchIdle ==
    /\ error = [stack_trace |-> <<>>]
    /\ expectation = [args |-> <<>>, kwargs |-> <<>>]
    /\ match_result = [outcome |-> "none", msg |-> ""]

StorageIdle ==
    /\ writes = EmptyDict
    /\ sstore_trace = EmptyDict
    /\ account_db = EmptyDict
    /\ storage_var = [addr |-> 0, slot |-> 0, typ |-> [kind |-> "none"]]
    /\ get_result = EmptyDict

DumpIdle ==
    /\ storage_model = EmptyDict
    /\ dump_result = [outcome |-> "none"]

DecodeLogIdle ==
    /\ dl_contract = [_address |-> 0, event_for |-> EmptyDict]
    /\ dl_values = <<>>
    /\ dl_entry = <<>>
    /\ dl_result = [outcome |-> "none"]

GetLogsIdle ==
    /\ gl_contracts = EmptyDict
    /\ gl_emissions = <<>>
    /\ gl_computation = [_log_entries |-> <<>>, children |-> <<>>]
    /\ gl_include_child_logs = TRUE
    /\ gl_result = [outcome |-> "none"]

CalldataIdle ==
    /\ pcd_fn = [func_t |-> [name |-> ""]]
    /\ pcd_args = <<>>
    /\ pcd_kwargs = EmptyDict
    /\ pcd_result = [outcome |-> "none"]

InspectIdle ==
    /\ insp_contract = [address |-> 0]
    /\ insp_computation = [code |-> [_trace |-> <<>>]]
    /\ insp_op = "none"
    /\ insp_result = [outcome |-> "none"]

SessionIdle ==
    /\ ses_contract = [bytecode |-> <<>>]
    /\ ses_executions = 0
    /\ ses_steps = 0

BrowserIdle ==
    /\ br_host = [colab |-> FALSE, running_loop |-> FALSE]
    /\ br_blocks = <<>>
    /\ br_call = [pc |-> "none"]
    /\ br_time = 0
    /\ br_calls = 0

\* every later component but the named ones is out of use
LaterIdleExcept(cs) ==
    /\ IF "dump" \in cs THEN TRUE ELSE DumpIdle
    /\ IF "decode_log" \in cs THEN TRUE ELSE DecodeLogIdle
    /\ IF "get_logs" \in cs THEN TRUE ELSE GetLogsIdle
    /\ IF "calldata" \in cs THEN TRUE ELSE CalldataIdle
    /\ IF "inspect" \in cs THEN TRUE ELSE InspectIdle
    /\ IF "session" \in cs THEN TRUE ELSE SessionIdle
    /\ IF "browser" \in cs THEN TRUE ELSE BrowserIdle

\* and stays as it is
LaterUnchangedExcept(cs) ==
    /\ IF "dump" \in cs THEN TRUE ELSE UNCHANGED dump_vars
    /\ IF "decode_log" \in cs THEN TRUE ELSE UNCHANGED decode_log_vars
    /\ IF "get_logs" \in cs THEN TRUE ELSE UNCHANGED get_logs_vars
    /\ IF "calldata" \in cs THEN TRUE ELSE UNCHANGED calldata_vars
    /\ IF "inspect" \in cs THEN TRUE ELSE UNCHANGED inspect_vars
    /\ IF "session" \in cs THEN TRUE ELSE UNCHANGED session_vars
    /\ IF "browser" \in cs THEN TRUE ELSE UNCHANGED browser_vars

LaterIdle == LaterIdleExcept({})

InitUnwrap ==
    /\ pc = "ready"
    /\ LaterIdle
    /\ SourceIdle
    /\ TraceIdle
    /\ MatchIdle
    /\ StorageIdle
    /\ sha3_trace \in Sha3Dbs
    /\ uw_key \in {Word(w) : w \in Words} \cup {Bytes32(w) : w \in Words}
    /\ uw_result = Returned(<<>>)

UnwrapStorageKey ==
    /\ pc = "ready"
    /\ uw_result' = unwrap_storage_key(sha3_trace, uw_key)
    /\ pc' = "done"
    /\ UNCHANGED <<later_vars, sha3_trace, uw_key, source_vars, trace_vars, match_vars, storage_vars>>

NextUnwrap == UnwrapStorageKey

SpecUnwrap == InitUnwrap /\ [][NextUnwrap]_vars

\* hs is a chain of recorded digests ending at the key: each one's preimage
\* starts with the digest before it
IsChain(db, hs, key) ==
    /\ hs[Len(hs)] = to_bytes(key)
    /\ \A i \in 2 .. Len(hs) : db[hs[i]].slot = hs[i - 1]
    /\ db[hs[1]].slot \notin DOMAIN db

ChainPath(db, hs) ==
    <<db[hs[1]].slot>> \o [i \in 1 .. Len(hs) |-> db[hs[i]].k]

(***************************************************************************)
(* C1: for a chain of n >= 0 recorded preimages hash(root||k1) = h1, ...,  *)
(* hash(h(n-1)||kn) = hn that starts at a root with no recorded preimage,  *)
(* unwinding hn returns exactly <<root, k1, ..., kn>>; with n = 0 this is  *)
(* the one-element path <<key>> of a key the database does not hold.       *)
(***************************************************************************)
C1_UnwindIsRootToLeafPath ==
    pc = "done" =>
        /\ to_bytes(uw_key) \notin DOMAIN sha3_trace
              => uw_result = Returned(<<uw_key>>)
        /\ \A n \in 1 .. MaxWord :
              \A hs \in [1 .. n -> DOMAIN sha3_trace] :
                  IsChain(sha3_trace, hs, uw_key)
                      => uw_result = Returned(ChainPath(sha3_trace, hs))

C1_Witness ==
    /\ pc = "done"
    /\ uw_result.ok
    /\ Len(uw_result.path) = 3
    /\ \E hs \in [1 .. 2 -> DOMAIN sha3_trace] : IsChain(sha3_trace, hs, uw_key)

(***************************************************************************)
(* C2: unwrap_storage_key terminates (returns a path) for every finite     *)
(* preimage database and every key, also when a digest's preimage leads    *)
(* back to the digest.                                                     *)
(***************************************************************************)
C2_UnwindAlwaysTerminates == pc = "done" => uw_result.ok

(***************************************************************************)
(* The source position index: find_error_meta and find_source_of.          *)
(***************************************************************************)
Pcs == {1, 2, 3}
MaxTrace == 3           \* longest visited-pc list drawn
Positions == {1, 2}     \* source positions the pc_pos_map may name
SomeDetails == {"user assert", "safesub"}

\* the AST node at a source position of the modelled program: one statement per
\* line; lines 5 and 6 lie inside a raise and an assert statement, line 4 is
\* outside every function
NodeAt(p) ==
    [node_id |-> 10 + p, lineno |-> p, end_lineno |-> p,
     fn |-> IF p = 4 THEN None ELSE "foo",
     in_assert |-> p \in {5, 6}]

\* the value of `for pc in reversed(trace): if pc in m: return m[pc]`, from index i down
RECURSIVE scan_error_map(_, _, _)
scan_error_map(trace, i, error_map) ==
    IF i = 0 THEN None
    ELSE IF trace[i] \in DOMAIN error_map THEN error_map[trace[i]]
    ELSE scan_error_map(trace, i - 1, error_map)

\* the same loop run over the trace in execution order
RECURSIVE scan_error_map_forward(_, _, _)
scan_error_map_forward(trace, i, error_map) ==
    IF i > Len(trace) THEN None
    ELSE IF trace[i] \in DOMAIN error_map THEN error_map[trace[i]]
    ELSE scan_error_map_forward(trace, i + 1, error_map)

find_error_meta_forward(self, c) ==
    IF "vyper_error_msg" \in DOMAIN c THEN c.vyper_error_msg
    ELSE LET error_map == IF "error_map" \in DOMAIN self.source_map
                          THEN self.source_map.error_map ELSE EmptyDict
         IN  scan_error_map_forward(c.code._trace, 1, error_map)

find_error_meta(self, c) ==
    IF "vyper_error_msg" \in DOMAIN c THEN c.vyper_error_msg
    ELSE LET error_map == IF "error_map" \in DOMAIN self.source_map
                          THEN self.source_map.error_map ELSE EmptyDict
         IN  scan_error_map(c.code._trace, Len(c.code._trace), error_map)

RECURSIVE scan_pc_map(_, _, _, _)
scan_pc_map(trace, i, pc_map, ast_map) ==
    IF i = 0 THEN NoNode
    ELSE IF trace[i] \in DOMAIN pc_map /\ pc_map[trace[i]] \in DOMAIN ast_map
         THEN ast_map[pc_map[trace[i]]]
    ELSE scan_pc_map(trace, i - 1, pc_map, ast_map)

find_source_of(self, c) ==
    IF "vyper_source_pos" \in DOMAIN c
    THEN IF c.vyper_source_pos \in DOMAIN self.ast_map
         THEN self.ast_map[c.vyper_source_pos] ELSE NoNode
    ELSE scan_pc_map(c.code._trace, Len(c.code._trace),
                     self.source_map.pc_pos_map, self.ast_map)

(***************************************************************************)
(* Specification of the lookups.  The initial states draw the visited-pc   *)
(* list, the maps the lookup under study reads and the attribute the IR    *)
(* executor may have attached to the computation.                          *)
(***************************************************************************)
Traces == SeqsUpTo(Pcs, MaxTrace)

ErrorMetaInputs ==
    /\ src_fn = "find_error_meta"
    /\ \E sm \in [pc_pos_map : {EmptyDict}]
                  \cup [pc_pos_map : {EmptyDict}, error_map : PartialFns(Pcs, SomeDetails)] :
          contract = [source_map |-> sm, ast_map |-> EmptyDict]
    /\ \E t \in Traces :
          computation \in {[code |-> [_trace |-> t]]}
              \cup {[code |-> [_trace |-> t], vyper_error_msg |-> m] :
                        m \in SomeDetails \cup {None}}
    /\ src_result = None

SourceOfInputs ==
    /\ src_fn = "find_source_of"
    /\ \E pm \in PartialFns(Pcs, Positions), known \in SUBSET Positions :
          contract = [source_map |-> [pc_pos_map |-> pm],
                      ast_map |-> [p \in known |-> NodeAt(p)]]
    /\ \E t \in Traces :
          computation \in {[code |-> [_trace |-> t]]}
              \cup {[code |-> [_trace |-> t], vyper_source_pos |-> p] : p \in Positions}
    /\ src_result = NoNode

InitSource ==
    /\ pc = "ready"
    /\ LaterIdle
    /\ sha3_trace = EmptyDict
    /\ UnwrapIdle
    /\ TraceIdle
    /\ MatchIdle
    /\ StorageIdle
    /\ (ErrorMetaInputs \/ SourceOfInputs)

FindErrorMeta ==
    /\ pc = "ready"
    /\ src_fn = "find_error_meta"
    /\ src_result' = find_error_meta(contract, computation)
    /\ pc' = "done"
    /\ UNCHANGED <<later_vars, sha3_trace, unwrap_vars, contract, computation, src_fn,
                   trace_vars, match_vars, storage_vars>>

FindSourceOf ==
    /\ pc = "ready"
    /\ src_fn = "find_source_of"
    /\ src_result' = find_source_of(contract, computation)
    /\ pc' = "done"
    /\ UNCHANGED <<later_vars, sha3_trace, unwrap_vars, contract, computation, src_fn,
                   trace_vars, match_vars, storage_vars>>

NextSource == FindErrorMeta \/ FindSourceOf

SpecSource == InitSource /\ [][NextSource]_vars

(***************************************************************************)
(* C5: each lookup returns the entry of the most recently visited pc that  *)
(* has an entry in its map (for find_source_of: a position the AST map     *)
(* knows), whatever earlier visited pcs match, and nothing when no visited *)
(* pc matches; an attribute attached to the computation is used instead    *)
(* and the visited-pc list is then not consulted.                          *)
(***************************************************************************)
Latest(S) == CHOOSE i \in S : \A j \in S : j <= i

ErrorHits ==
    IF "error_map" \in DOMAIN contract.source_map
    THEN { i \in DOMAIN computation.code._trace :
             computation.code._trace[i] \in DOMAIN contract.source_map.error_map }
    ELSE {}

SourceHits ==
    { i \in DOMAIN computation.code._trace :
        /\ computation.code._trace[i] \in DOMAIN contract.source_map.pc_pos_map
        /\ contract.source_map.pc_pos_map[computation.code._trace[i]]
               \in DOMAIN contract.ast_map }

C5_ErrorMetaReverseScan ==
    IF "vyper_error_msg" \in DOMAIN computation
    THEN src_result = computation.vyper_error_msg
    ELSE IF ErrorHits = {} THEN src_result = None
    ELSE src_result =
           contract.source_map.error_map[computation.code._trace[Latest(ErrorHits)]]

C5_SourceOfReverseScan ==
    IF "vyper_source_pos" \in DOMAIN computation
    THEN IF computation.vyper_source_pos \in DOMAIN contract.ast_map
         THEN src_result = NodeAt(computation.vyper_source_pos)
         ELSE src_result = NoNode
    ELSE IF SourceHits = {} THEN src_result = NoNode
    ELSE src_result =
           NodeAt(contract.source_map.pc_pos_map[computation.code._trace[Latest(SourceHits)]])

C5_ReverseScanPolicy ==
    pc = "done" =>
        /\ src_fn = "find_error_meta" => C5_ErrorMetaReverseScan
        /\ src_fn = "find_source_of" => C5_SourceOfReverseScan

\* two visited pcs match with different entries, and the later one is returned
C5_Witness ==
    /\ pc = "done"
    /\ src_fn = "find_error_meta"
    /\ "vyper_error_msg" \notin DOMAIN computation
    /\ Cardinality(ErrorHits) >= 2
    /\ \E i \in ErrorHits :
          contract.source_map.error_map[computation.code._trace[i]] # src_result

(***************************************************************************)
(* The frame / trace reconstructor: ErrorDetail and stack_trace.           *)
(***************************************************************************)
EXTERNAL_CALL_ERRORS == {"external call failed", "returndatasize too small"}

\* the create errors without "create2 failed"
CREATE_ERRORS_create_only == {"create failed"}

CREATE_ERRORS == {"create failed", "create2 failed"}

DEV_REASON_ALLOWED == {"user raise", "user assert"}

\* VM errors.  args[0] is bytes (the revert payload: a 4-byte selector and a body)
\* or another object (a message string)
ErrorStringSelector == "08c379a0"
ErrorString(s) ==
    [cls |-> "Revert",
     args0 |-> [is_bytes |-> TRUE, selector |-> ErrorStringSelector,
                body |-> [abi_string |-> s]]]
EmptyRevert ==
    [cls |-> "Revert",
     args0 |-> [is_bytes |-> TRUE, selector |-> "", body |-> [raw |-> ""]]]
OutOfGas ==
    [cls |-> "OutOfGas",
     args0 |-> [is_bytes |-> FALSE, selector |-> "", body |-> [raw |-> "Out of gas"]]]

abi_decode_string(body) == body.abi_string

repr(err) ==
    IF ~err.args0.is_bytes THEN err.cls \o "('" \o err.args0.body.raw \o "')"
    ELSE IF err.args0.selector = ErrorStringSelector
         THEN err.cls \o "(b'08c379a0:" \o err.args0.body.abi_string \o "')"
    ELSE err.cls \o "(b'" \o err.args0.body.raw \o "')"

pretty_vm_reason(frame) ==
    LET err == frame.vm_error IN
    IF err.args0.is_bytes /\ err.args0.selector = ErrorStringSelector
    THEN abi_decode_string(err.args0.body)
    ELSE repr(err)

\* reason_at: the developer reason annotated on the source lines, if any
reason_at(source_code, lineno, end_lineno) ==
    IF lineno \in DOMAIN source_code THEN source_code[lineno] ELSE NoDevReason

at_source_location(source_code, lineno, end_lineno) ==
    reason_at(source_code, lineno, end_lineno)

get_fn_ancestor_from_node(node) == IF node = NoNode THEN None ELSE node.fn

_get_fn_from_computation(self, c) == get_fn_ancestor_from_node(find_source_of(self, c))

\* debug_frame, as far as the function lookup: no frame detail for a computation
\* that cannot be attributed to a function
debug_frame(self, c) ==
    LET fn == _get_fn_from_computation(self, c) IN
    IF fn = None THEN NoFrame ELSE [fn_name |-> fn, items |-> EmptyDict]

from_computation(self, c) ==
    LET error_detail == find_error_meta(self, c)
        ast_source == find_source_of(self, c)
        reason == IF ast_source # NoNode
                  THEN at_source_location(self.compiler_data.source_code,
                                          ast_source.lineno, ast_source.end_lineno)
                  ELSE NoDevReason
        frame_detail == debug_frame(self, c)
        contract_repr == IF c._contract_repr_before_revert # None
                         THEN c._contract_repr_before_revert ELSE self.repr
    IN  [vm_error |-> c.error,
         contract_repr |-> contract_repr,
         error_detail |-> error_detail,
         dev_reason |-> reason,
         frame_detail |-> frame_detail,
         ast_source |-> ast_source]

\* the frame of a child call whose callee is not tracked: VM-level information only
trace_for_unknown_contract(child) ==
    <<[vm_error |-> child.error,
       contract_repr |-> "<unknown contract " \o ToString(child.msg.code_address) \o ">",
       error_detail |-> None,
       dev_reason |-> NoDevReason,
       frame_detail |-> NoFrame,
       ast_source |-> NoNode]>>

RECURSIVE stack_trace(_, _)
RECURSIVE _handle_child_trace(_, _)

\* recurse into the last child call and put its frames before the caller's
_handle_child_trace(c, return_trace) ==
    IF Len(c.children) = 0 THEN return_trace
    ELSE LET child == c.children[Len(c.children)]
             child_trace ==
                 IF child.msg.code_address \in DOMAIN env_contracts
                 THEN stack_trace(env_contracts[child.msg.code_address], child)
                 ELSE trace_for_unknown_contract(child)
         IN  child_trace \o return_trace

\* a stack_trace that never looks at the child calls
stack_trace_own_frame(self, c) == <<from_computation(self, c)>>

stack_trace(self, c) ==
    LET ret == <<from_computation(self, c)>>
        error_detail == find_error_meta(self, c)
    IN  IF error_detail \notin EXTERNAL_CALL_ERRORS \cup CREATE_ERRORS
        THEN ret
        ELSE _handle_child_trace(c, ret)

(***************************************************************************)
(* Specification of stack_trace.  Every contract is deployed from one      *)
(* artifact; a call chain of up to MaxDepth levels is drawn, each level    *)
(* with the error detail its visited pcs lead to, and the computation tree *)
(* is the one the VM records for that chain.                               *)
(***************************************************************************)
MaxDepth == 3

ArtifactErrorMap ==
    (1 :> "external call failed" @@ 2 :> "returndatasize too small" @@
     3 :> "create failed" @@ 4 :> "create2 failed" @@
     5 :> "user revert with reason" @@ 6 :> "user assert")

ArtifactSourceCode == (6 :> [reason_type |-> "dev", reason_str |-> "bar"])

Artifact(address) ==
    [address |-> address,
     repr |-> "<contract at " \o ToString(address) \o ">",
     source_map |-> [error_map |-> ArtifactErrorMap,
                     pc_pos_map |-> [p \in 1 .. 6 |-> p]],
     ast_map |-> [p \in 1 .. 6 |-> NodeAt(p)],
     compiler_data |-> [source_code |-> ArtifactSourceCode]]

LevelDetails == {ArtifactErrorMap[p] : p \in DOMAIN ArtifactErrorMap} \cup {None}
LevelErrors == {ErrorString("bar"), EmptyRevert}

\* the pcs a call visits before it fails with the given detail: an earlier pc
\* with an entry of its own, the failing pc, and a pc with no entry
TraceOf(detail) ==
    IF detail = None THEN <<7>>
    ELSE <<5, CHOOSE p \in DOMAIN ArtifactErrorMap : ArtifactErrorMap[p] = detail, 7>>

EarlierChildAddress == 9
\* a call that failed and was caught before the last child call was made
EarlierChild ==
    [code |-> [_trace |-> <<6>>],
     error |-> ErrorString("earlier"),
     msg |-> [code_address |-> EarlierChildAddress],
     _contract_repr_before_revert |-> None,
     children |-> <<>>]

RECURSIVE MakeComputation(_, _)
MakeComputation(chain, i) ==
    [code |-> [_trace |-> TraceOf(chain[i].detail)],
     error |-> chain[i].error,
     msg |-> [code_address |-> i],
     _contract_repr_before_revert |-> None,
     children |->
        (IF chain[i].earlier_child THEN <<EarlierChild>> ELSE <<>>)
        \o (IF i < Len(chain) THEN <<MakeComputation(chain, i + 1)>> ELSE <<>>)]

CallChains ==
    UNION { { [i \in 1 .. n |->
                 [detail |-> details[i],
                  registered |-> (i = 1 \/ i \in reg),
                  earlier_child |-> (ec /\ i = 1 /\ n > 1),
                  error |-> err]] :
              details \in [1 .. n -> LevelDetails], reg \in SUBSET (2 .. n),
              ec \in BOOLEAN, err \in LevelErrors }
            : n \in 1 .. MaxDepth }

InitTrace ==
    /\ pc = "ready"
    /\ LaterIdle
    /\ sha3_trace = EmptyDict
    /\ UnwrapIdle
    /\ MatchIdle
    /\ StorageIdle
    /\ src_fn = "none"
    /\ src_result = None
    /\ call_chain \in CallChains
    /\ contract = Artifact(1)
    /\ computation = MakeComputation(call_chain, 1)
    /\ env_contracts =
          [a \in {i \in 1 .. Len(call_chain) : call_chain[i].registered}
                    \cup {EarlierChildAddress} |-> Artifact(a)]
    /\ st_result = <<>>

StackTrace ==
    /\ pc = "ready"
    /\ st_result' = stack_trace(contract, computation)
    /\ pc' = "done"
    /\ UNCHANGED <<later_vars, sha3_trace, unwrap_vars, source_vars, env_contracts, call_chain,
                   match_vars, storage_vars>>

NextTrace == StackTrace

SpecTrace == InitTrace /\ [][NextTrace]_vars

(***************************************************************************)
(* C3: when every outer call of a chain of n calls fails with a            *)
(* pass-through error detail, stack_trace returns n frames, innermost      *)
(* first: frame 1 carries the innermost call's revert reason and frame n   *)
(* the outermost call's error detail.  With two levels, the inner          *)
(* reverting with "bar" and the outer failing with "external call failed", *)
(* the trace is <<frame with reason "bar", frame with that detail>>.       *)
(***************************************************************************)
PassThroughKinds ==
    {"external call failed", "returndatasize too small",
     "create failed", "create2 failed"}

PassThroughChain ==
    /\ \A i \in 1 .. Len(call_chain) : call_chain[i].registered
    /\ \A i \in 1 .. Len(call_chain) - 1 : call_chain[i].detail \in PassThroughKinds

C3_OneFramePerCallLevel ==
    (pc = "done" /\ PassThroughChain) =>
        LET n == Len(call_chain) IN
        /\ Len(st_result) = n
        /\ \A j \in 1 .. n :
              /\ st_result[j].error_detail = call_chain[n + 1 - j].detail
              /\ st_result[j].contract_repr = Artifact(n + 1 - j).repr
              /\ st_result[j].vm_error = call_chain[n + 1 - j].error
        /\ call_chain[n].error = ErrorString("bar")
              => pretty_vm_reason(st_result[1]) = "bar"

C3_Witness ==
    /\ pc = "done"
    /\ Len(call_chain) = 2
    /\ call_chain[1].detail = "external call failed"
    /\ call_chain[2].registered
    /\ call_chain[2].error = ErrorString("bar")
    /\ Len(st_result) = 2
    /\ pretty_vm_reason(st_result[1]) = "bar"
    /\ st_result[2].error_detail = "external call failed"

(***************************************************************************)
(* C4: stack_trace descends into the child calls exactly when the failing  *)
(* call's error detail is one of the four pass-through strings; for any    *)
(* other detail, None included, the trace is the single frame of the       *)
(* failing call however many child calls it made.                          *)
(***************************************************************************)
C4_DescendsIffPassThrough ==
    pc = "done" =>
        /\ call_chain[1].detail \notin PassThroughKinds
              => /\ Len(st_result) = 1
                 /\ st_result[1].contract_repr = Artifact(1).repr
                 /\ st_result[1].error_detail = call_chain[1].detail
        /\ (call_chain[1].detail \in PassThroughKinds /\ Len(call_chain) > 1)
              => /\ Len(st_result) >= 2
                 /\ st_result[Len(st_result)].contract_repr = Artifact(1).repr

\* a call with two child calls and a detail that is not pass-through: one frame
C4_Witness ==
    /\ pc = "done"
    /\ call_chain[1].detail = "user revert with reason"
    /\ Len(computation.children) = 2
    /\ Len(st_result) = 1

(***************************************************************************)
(* The error matcher: check_boa_error_matches.                             *)
(***************************************************************************)
Ok == [outcome |-> "ok", msg |-> ""]
ValueError(msg) == [outcome |-> "ValueError", msg |-> msg]
AssertionError == [outcome |-> "AssertionError", msg |-> ""]
AttributeError ==
    [outcome |-> "AttributeError",
     msg |-> "'NoneType' object has no attribute 'get_ancestor'"]

\* str() of an optional string and of an optional DevReason
str(x) == IF x = None THEN "None" ELSE x
str_dev_reason(r) ==
    IF r = NoDevReason THEN "None"
    ELSE "<" \o r.reason_type \o ": " \o r.reason_str \o ">"

_check(cond, msg) == IF cond THEN Ok ELSE ValueError(msg)

\* StackTrace.last_frame
last_frame(st) == st[Len(st)]

\* node.get_ancestor((vy_ast.Assert, vy_ast.Raise)) is not None
has_assert_ancestor(node) == node.in_assert

\* a bare-string match that never looks at the developer reason
match_any_no_dev_reason(frame, err) ==
    _check(\/ err = pretty_vm_reason(frame)
           \/ err = frame.error_detail,
           "does not match " \o err)

\* the positional form: try to match anything
match_any(frame, err) ==
    _check(\/ err = pretty_vm_reason(frame)
           \/ err = frame.error_detail
           \/ (frame.dev_reason # NoDevReason /\ err = frame.dev_reason.reason_str),
           "does not match " \o err)

\* a compiler match that also accepts the VM reason
match_compiler_or_vm_reason(frame, v) ==
    _check(v = frame.error_detail \/ v = pretty_vm_reason(frame),
           str(frame.error_detail) \o " != " \o v)

match_compiler(frame, v) ==
    _check(v = frame.error_detail, str(frame.error_detail) \o " != " \o v)

\* a vm_error match that accepts any error detail
match_vm_error_any_detail(frame, v) ==
    _check(v = pretty_vm_reason(frame), pretty_vm_reason(frame) \o " != " \o v)

match_vm_error(frame, v) ==
    _check(frame.error_detail = "user revert with reason" /\ v = pretty_vm_reason(frame),
           pretty_vm_reason(frame) \o " != " \o v)

\* the else branch: assume it is a dev reason string
match_dev_reason(frame, k, v) ==
    IF frame.ast_source = NoNode THEN AttributeError
    ELSE IF has_assert_ancestor(frame.ast_source)
            /\ frame.error_detail \notin DEV_REASON_ALLOWED
         THEN ValueError("expected <" \o k \o ": " \o v \o "> but got <compiler: "
                         \o str(frame.error_detail) \o ">")
    ELSE _check(/\ frame.dev_reason # NoDevReason
                /\ k = frame.dev_reason.reason_type
                /\ v = frame.dev_reason.reason_str,
                "expected <" \o k \o ": " \o v \o "> but got "
                \o str_dev_reason(frame.dev_reason))

check_boa_error_matches(err, args, kwargs) ==
    LET frame == last_frame(err.stack_trace) IN
    IF Len(args) > 0
    THEN IF Len(args) # 1 \/ Len(kwargs) # 0 THEN AssertionError
         ELSE match_any(frame, args[1])
    ELSE IF ~(Len(kwargs) = 1 /\ Len(args) = 0) THEN AssertionError
    \* don't accept magic
    ELSE IF /\ frame.dev_reason # NoDevReason
            /\ frame.dev_reason.reason_type \in {"vm_error", "compiler"}
         THEN AssertionError
    ELSE LET k == kwargs[1][1]
             v == kwargs[1][2]
         IN  IF k = "compiler" THEN match_compiler(frame, v)
             ELSE IF k = "vm_error" THEN match_vm_error(frame, v)
             ELSE match_dev_reason(frame, k, v)

(***************************************************************************)
(* Specification of the matcher.  The last frame is any ErrorDetail that   *)
(* from_computation can build (a developer reason needs a source node);    *)
(* the expectation is a bare string or one tagged string.                  *)
(***************************************************************************)
AssertNode == NodeAt(6)
PlainNode == NodeAt(1)

MatchFrames ==
    { f \in [vm_error : {ErrorString("bar"), ErrorString("user assert"), EmptyRevert},
              contract_repr : {Artifact(1).repr},
              error_detail : {None, "user revert with reason", "user assert", "user raise"},
              dev_reason : {NoDevReason}
                             \cup [reason_type : {"dev", "compiler", "vm_error"},
                                   reason_str : {"bar", "user assert"}],
              frame_detail : {NoFrame},
              ast_source : {NoNode, AssertNode, PlainNode}] :
        f.ast_source = NoNode => f.dev_reason = NoDevReason }

\* the frame of an inner call, ahead of the last frame in a two-frame trace
InnerFrame ==
    [vm_error |-> ErrorString("inner"),
     contract_repr |-> Artifact(2).repr,
     error_detail |-> "user revert with reason",
     dev_reason |-> [reason_type |-> "dev", reason_str |-> "inner"],
     frame_detail |-> NoFrame,
     ast_source |-> AssertNode]

ExpectedStrings ==
    {"bar", "user revert with reason", "User Revert With Reason", "user assert",
     repr(EmptyRevert)}
ExpectedTags == {"compiler", "vm_error", "dev", "rekt"}

Expectations ==
    { [args |-> <<s>>, kwargs |-> <<>>] : s \in ExpectedStrings }
    \cup { [args |-> <<>>, kwargs |-> <<(<<k, s>>)>>] :
              k \in ExpectedTags, s \in ExpectedStrings }

InitMatch ==
    /\ pc = "ready"
    /\ LaterIdle
    /\ sha3_trace = EmptyDict
    /\ UnwrapIdle
    /\ SourceIdle
    /\ TraceIdle
    /\ StorageIdle
    /\ \E f \in MatchFrames :
          error \in {[stack_trace |-> <<f>>], [stack_trace |-> <<InnerFrame, f>>]}
    /\ expectation \in Expectations
    /\ match_result = [outcome |-> "none", msg |-> ""]

CheckBoaErrorMatches ==
    /\ pc = "ready"
    /\ match_result' =
          check_boa_error_matches(error, expectation.args, expectation.kwargs)
    /\ pc' = "done"
    /\ UNCHANGED <<later_vars, sha3_trace, unwrap_vars, source_vars, trace_vars, error, expectation,
                   storage_vars>>

NextMatch == CheckBoaErrorMatches

SpecMatch == InitMatch /\ [][NextMatch]_vars

\* what the claims about the matcher speak of
TheFrame == error.stack_trace[Len(error.stack_trace)]
Tagged(k) ==
    /\ pc = "done"
    /\ expectation.args = <<>>
    /\ expectation.kwargs[1][1] = k
TagText == expectation.kwargs[1][2]
Succeeded == match_result.outcome = "ok"
\* the frame's developer reason is of a kind reserved for the other tags
ReservedDevReason ==
    /\ TheFrame.dev_reason # NoDevReason
    /\ TheFrame.dev_reason.reason_type \in {"vm_error", "compiler"}
\* the decoded text of an Error(string) payload, the printed error otherwise
PrettyReasonOf(e) ==
    IF e.args0.is_bytes /\ e.args0.selector = "08c379a0"
    THEN e.args0.body.abi_string ELSE repr(e)

(***************************************************************************)
(* C6 as claimed: for {compiler: s} the matcher succeeds if and only if    *)
(* the last frame's error detail equals s, whatever the other fields of    *)
(* the frame hold.                                                         *)
(***************************************************************************)
C6_CompilerIffDetailEquals ==
    Tagged("compiler") => (Succeeded <=> TheFrame.error_detail = TagText)

(***************************************************************************)
(* C6 as amended: for {compiler: s} and a last frame whose developer       *)
(* reason, if any, is not of kind vm_error or compiler, the matcher        *)
(* succeeds if and only if the frame's error detail equals s exactly, and  *)
(* fails with a mismatch error otherwise, whatever the VM reason, source   *)
(* node and developer reason are; a frame with a developer reason of a     *)
(* reserved kind fails the matcher's assertion whatever s is.              *)
(***************************************************************************)
C6_CompilerIffDetailEqualsUnlessReserved ==
    Tagged("compiler") =>
        IF ReservedDevReason THEN match_result.outcome = "AssertionError"
        ELSE IF TheFrame.error_detail = TagText THEN Succeeded
        ELSE match_result.outcome = "ValueError"

\* the detail matches while the VM reason and the developer reason say otherwise
C6_Witness ==
    /\ Tagged("compiler")
    /\ TagText = "user revert with reason"
    /\ TheFrame.error_detail = "user revert with reason"
    /\ TheFrame.vm_error = ErrorString("bar")
    /\ TheFrame.dev_reason = [reason_type |-> "dev", reason_str |-> "user assert"]
    /\ Len(error.stack_trace) = 2
    /\ Succeeded

(***************************************************************************)
(* C7: for {k: s} with k neither compiler nor vm_error the matcher         *)
(* succeeds if and only if the frame has a developer reason of kind k and  *)
(* text s and, when the source node lies inside an assert or raise, the    *)
(* error detail is "user raise" or "user assert"; in every other case,     *)
(* a frame with no source node included, it fails with a mismatch error    *)
(* (ValueError) that compares expected and actual.                         *)
(***************************************************************************)
C7_DevReasonMatchOrMismatchError ==
    (pc = "done" /\ expectation.args = <<>>
        /\ expectation.kwargs[1][1] \notin {"compiler", "vm_error"}) =>
        IF /\ TheFrame.dev_reason # NoDevReason
           /\ TheFrame.dev_reason.reason_type = expectation.kwargs[1][1]
           /\ TheFrame.dev_reason.reason_str = TagText
           /\ (TheFrame.ast_source # NoNode /\ TheFrame.ast_source.in_assert)
                 => TheFrame.error_detail \in {"user raise", "user assert"}
        THEN Succeeded
        ELSE match_result.outcome = "ValueError"

(***************************************************************************)
(* C8 as claimed: for {vm_error: s} the matcher succeeds if and only if    *)
(* the error detail is "user revert with reason" and s equals the pretty   *)
(* VM revert reason.                                                       *)
(***************************************************************************)
C8_VmErrorIffDetailAndReason ==
    Tagged("vm_error") =>
        (Succeeded <=> /\ TheFrame.error_detail = "user revert with reason"
                       /\ TagText = PrettyReasonOf(TheFrame.vm_error))

(***************************************************************************)
(* C8 as amended: for {vm_error: s} and a last frame whose developer       *)
(* reason, if any, is not of kind vm_error or compiler, the matcher        *)
(* succeeds if and only if the error detail is "user revert with reason"   *)
(* and s equals the pretty VM revert reason (the decoded string of an      *)
(* Error(string) payload, the printed error otherwise), and fails with a   *)
(* mismatch error otherwise; a frame with a developer reason of a reserved *)
(* kind fails the matcher's assertion whatever s is.                       *)
(***************************************************************************)
C8_VmErrorIffDetailAndReasonUnlessReserved ==
    Tagged("vm_error") =>
        IF ReservedDevReason THEN match_result.outcome = "AssertionError"
        ELSE IF /\ TheFrame.error_detail = "user revert with reason"
                /\ TagText = PrettyReasonOf(TheFrame.vm_error)
             THEN Succeeded
        ELSE match_result.outcome = "ValueError"

\* s equals the VM reason, the detail is another one: no match
C8_Witness ==
    /\ Tagged("vm_error")
    /\ ~ReservedDevReason
    /\ TagText = "bar"
    /\ TheFrame.vm_error = ErrorString("bar")
    /\ TheFrame.error_detail = "user assert"
    /\ match_result.outcome = "ValueError"

(***************************************************************************)
(* C9: for a bare string s the matcher succeeds if and only if s equals    *)
(* the pretty VM revert reason, the error detail or the developer reason's *)
(* text; a string equal to several of them is accepted and a string equal  *)
(* to none fails with a mismatch error.                                    *)
(***************************************************************************)
BareMatches ==
    { x \in {"vm", "detail", "dev"} :
        \/ x = "vm" /\ expectation.args[1] = PrettyReasonOf(TheFrame.vm_error)
        \/ x = "detail" /\ expectation.args[1] = TheFrame.error_detail
        \/ /\ x = "dev"
           /\ TheFrame.dev_reason # NoDevReason
           /\ expectation.args[1] = TheFrame.dev_reason.reason_str }

C9_BareStringMatchesAnyField ==
    (pc = "done" /\ Len(expectation.args) = 1) =>
        IF BareMatches # {} THEN Succeeded ELSE match_result.outcome = "ValueError"

\* the string equals the developer reason and the error detail, not the VM reason
C9_Witness ==
    /\ pc = "done"
    /\ Len(expectation.args) = 1
    /\ BareMatches = {"detail", "dev"}
    /\ Succeeded

(***************************************************************************)
(* The storage introspector: setpath and StorageVar.                       *)
(***************************************************************************)
UintT == [kind |-> "uint256", memory_bytes_required |-> 32]
AddressT == [kind |-> "address", memory_bytes_required |-> 32]
HashMapT(key_type, value_type) ==
    [kind |-> "HashMapT", key_type |-> key_type, value_type |-> value_type]

\* None where a decoded value is expected, and an absent / a given truncate_limit
NoValue == [none |-> TRUE]
NoLimit == [none |-> TRUE]
Limit(n) == [none |-> FALSE, n |-> n]

\* d[k] = v on a dict
DictSet(d, k, v) == [x \in DOMAIN d \cup {k} |-> IF x = k THEN v ELSE d[x]]

\* a setpath that starts a fresh sub-map at every level
RECURSIVE setpath_fresh_submap(_, _, _)
setpath_fresh_submap(lens, path, val) ==
    IF Len(path) = 0 THEN lens
    ELSE IF Len(path) = 1 THEN DictSet(lens, path[1], val)
    ELSE DictSet(lens, path[1], setpath_fresh_submap(EmptyDict, Tail(path), val))

RECURSIVE setpath(_, _, _)
setpath(lens, path, val) ==
    IF Len(path) = 0 THEN lens
    ELSE IF Len(path) = 1 THEN DictSet(lens, path[1], val)
    ELSE LET sub == IF path[1] \in DOMAIN lens THEN lens[path[1]] ELSE EmptyDict
         IN  DictSet(lens, path[1], setpath(sub, Tail(path), val))

\* decode_vyper_object on the 32 bytes of a mapping key
decode_key(p, typ) == [t |-> typ.kind, v |-> p.v]

\* decode_vyper_object on ByteAddressableStorage(accountdb, addr, slot): the word
\* stored at the slot, zero when nothing is stored
decode_storage(addr, slot, typ) ==
    IF addr \in DOMAIN account_db /\ slot \in DOMAIN account_db[addr]
    THEN account_db[addr][slot] ELSE Word(0)

_decode(self, slot, typ, truncate_limit) ==
    LET n == typ.memory_bytes_required IN
    IF truncate_limit # NoLimit /\ n > truncate_limit.n
    THEN NoValue
    ELSE decode_storage(self.addr, slot, typ)

\* env.lookup_alias: address 1 is known by a name, no other address is
env_aliases == ([t |-> "address", v |-> 1] :> [t |-> "alias", v |-> 1])

_dealias(maybe_address) ==
    IF maybe_address \in DOMAIN env_aliases
    THEN env_aliases[maybe_address] ELSE maybe_address

\* ty after n steps of `ty = ty.value_type`
RECURSIVE value_type_n(_, _)
value_type_n(ty, n) == IF n = 0 THEN ty ELSE value_type_n(ty.value_type, n - 1)

\* bool(val) of a decoded value
truthy(val) == val # NoValue /\ val.v # 0

\* the body of `for k in sstore_trace.get(self.addr, {})`
get_key(self, ret, k, truncate_limit) ==
    LET unwound == unwrap_storage_key(sha3_trace, k).path IN
    IF to_int(unwound[1]) # self.slot THEN ret
    ELSE LET raw == Tail(unwound)
             path_t == [i \in 1 .. Len(raw) |-> value_type_n(self.typ, i - 1).key_type]
             path == [i \in 1 .. Len(raw) |-> decode_key(raw[i], path_t[i])]
             ty == value_type_n(self.typ, Len(raw))
             val == _decode(self, k, ty, truncate_limit)
             dealiased_path ==
                 [i \in 1 .. Len(raw) |->
                    IF path_t[i].kind = "address" THEN _dealias(path[i]) ELSE path[i]]
         IN  IF truthy(val) THEN setpath(ret, dealiased_path, val) ELSE ret

RECURSIVE get_loop(_, _, _, _)
get_loop(self, keys, ret, truncate_limit) ==
    IF keys = {} THEN ret
    ELSE LET k == CHOOSE x \in keys : TRUE
         IN  get_loop(self, keys \ {k}, get_key(self, ret, k, truncate_limit),
                      truncate_limit)

get(self, truncate_limit) ==
    IF self.typ.kind = "HashMapT"
    THEN get_loop(self,
                  IF self.addr \in DOMAIN sstore_trace
                  THEN sstore_trace[self.addr] ELSE {},
                  EmptyDict, truncate_limit)
    ELSE _decode(self, self.slot, self.typ, truncate_limit)

(***************************************************************************)
(* Specification of StorageVar.get.  A contract declares two two-level     *)
(* mappings, a one-level mapping and a plain variable; the VM has executed *)
(* up to MaxWrites SSTOREs, hashing each mapping key on the way, at this   *)
(* contract's address or at another contract of the same layout.           *)
(***************************************************************************)
MaxWrites == 2

SelfAddress == "self"
OtherAddress == "other"

StorageLayout ==
    (0 :> HashMapT(AddressT, HashMapT(UintT, UintT)) @@
     1 :> HashMapT(AddressT, HashMapT(UintT, UintT)) @@
     2 :> HashMapT(UintT, UintT) @@
     3 :> UintT)

KeyValues(typ) ==
    IF typ.kind = "address" THEN {[t |-> "address", v |-> a] : a \in {1, 2}}
    ELSE {[t |-> "uint256", v |-> n] : n \in {7, 8}}

RECURSIVE KeyPaths(_)
KeyPaths(typ) ==
    IF typ.kind = "HashMapT"
    THEN { <<k>> \o rest : k \in KeyValues(typ.key_type), rest \in KeyPaths(typ.value_type) }
    ELSE { <<>> }

StoredValues == {0, 42, 43}

\* keccak256 of parent || key: an injective function into words that are no slot
Sha3(parent, key) == (parent + 1) * 10 + key

\* the storage key of slot[k1]...[kn]
RECURSIVE StorageKey(_, _)
StorageKey(word, keys) ==
    IF keys = <<>> THEN word
    ELSE StorageKey(Sha3(word, Head(keys).v), Tail(keys))

\* the sha3 preimages the VM records on the way to that storage key
PreimagesRecorded(slot, keys) ==
    { <<Bytes32(StorageKey(slot, SubSeq(keys, 1, j))),
        [slot |-> Bytes32(StorageKey(slot, SubSeq(keys, 1, j - 1))),
         k |-> Bytes32(keys[j].v)]>> : j \in 1 .. Len(keys) }

WriteTargets ==
    { [addr |-> SelfAddress, slot |-> s, keys |-> ks] :
        s \in DOMAIN StorageLayout, ks \in UNION {KeyPaths(StorageLayout[x]) : x \in DOMAIN StorageLayout} }

ValidTargets ==
    { w \in WriteTargets : w.keys \in KeyPaths(StorageLayout[w.slot]) }
    \cup { [addr |-> OtherAddress, slot |-> 0,
            keys |-> <<[t |-> "address", v |-> 1], [t |-> "uint256", v |-> 7]>>],
           [addr |-> OtherAddress, slot |-> 3, keys |-> <<>>] }

WriteSets ==
    {{}} \cup { {f[i] : i \in 1 .. MaxWrites} : f \in [1 .. MaxWrites -> ValidTargets] }

Sha3TraceOf(ws) ==
    LET entries == UNION { PreimagesRecorded(w.slot, w.keys) : w \in ws }
    IN  [d \in {e[1] : e \in entries} |-> (CHOOSE e \in entries : e[1] = d)[2]]

SstoreTraceOf(ws) ==
    [a \in {w.addr : w \in ws} |->
        { Word(StorageKey(w.slot, w.keys)) : w \in {x \in ws : x.addr = a} }]

AccountDbOf(wr) ==
    [a \in {w.addr : w \in DOMAIN wr} |->
        [k \in { Word(StorageKey(w.slot, w.keys)) : w \in {x \in DOMAIN wr : x.addr = a} } |->
            Word(wr[CHOOSE w \in DOMAIN wr :
                       w.addr = a /\ Word(StorageKey(w.slot, w.keys)) = k])]]

InitStorage ==
    /\ pc = "ready"
    /\ LaterIdle
    /\ UnwrapIdle
    /\ SourceIdle
    /\ TraceIdle
    /\ MatchIdle
    /\ \E ws \in WriteSets : writes \in [ws -> StoredValues]
    /\ sha3_trace = Sha3TraceOf(DOMAIN writes)
    /\ sstore_trace = SstoreTraceOf(DOMAIN writes)
    /\ account_db = AccountDbOf(writes)
    /\ \E s \in DOMAIN StorageLayout :
          storage_var = [addr |-> SelfAddress, slot |-> Word(s), typ |-> StorageLayout[s]]
    /\ get_result = EmptyDict

StorageVarGet ==
    /\ pc = "ready"
    /\ \E truncate_limit \in {NoLimit, Limit(1024)} :
          get_result' = get(storage_var, truncate_limit)
    /\ pc' = "done"
    /\ UNCHANGED <<later_vars, sha3_trace, unwrap_vars, source_vars, trace_vars, match_vars,
                   writes, sstore_trace, account_db, storage_var>>

NextStorage == StorageVarGet

SpecStorage == InitStorage /\ [][NextStorage]_vars

(***************************************************************************)
(* C10: for a mapping variable at slot s, the structure get returns holds  *)
(* value v at key path (k1..kn) if and only if a storage key written at    *)
(* this contract's address was hashed from s, k1, ..., kn and the word     *)
(* stored there is v and not zero: no key of another variable's slot or of *)
(* another address appears, no zero-valued entry appears, and entries that *)
(* share a key prefix lie under the same sub-map.  Address keys appear     *)
(* under their alias where the environment knows one.                      *)
(***************************************************************************)
RECURSIVE Depth(_)
Depth(typ) == IF typ.kind = "HashMapT" THEN 1 + Depth(typ.value_type) ELSE 0

\* the (key path, value) pairs of a nested dict whose leaves lie at the given depth
RECURSIVE Flatten(_, _)
Flatten(d, depth) ==
    IF depth = 0 THEN { <<(<<>>), d>> }
    ELSE UNION { { << <<k>> \o e[1], e[2] >> : e \in Flatten(d[k], depth - 1) } :
                 k \in DOMAIN d }

Shown(key) ==
    IF key.t = "address" /\ key.v = 1 THEN [t |-> "alias", v |-> 1] ELSE key

NonZeroEntries ==
    { << [i \in 1 .. Len(w.keys) |-> Shown(w.keys[i])], Word(writes[w]) >> :
        w \in { x \in DOMAIN writes :
                  /\ x.addr = storage_var.addr
                  /\ Word(x.slot) = storage_var.slot
                  /\ writes[x] # 0 } }

C10_MappingDumpIsNonZeroEntries ==
    (pc = "done" /\ storage_var.typ.kind = "HashMapT") =>
        Flatten(get_result, Depth(storage_var.typ)) = NonZeroEntries

\* m[A][7] = 42 and m[A][8] = 0 give {A: {7: 42}}
C10_Witness ==
    /\ pc = "done"
    /\ storage_var.slot = Word(0)
    /\ \E a \in KeyValues(AddressT) :
          /\ writes = ([addr |-> SelfAddress, slot |-> 0,
                        keys |-> <<a, [t |-> "uint256", v |-> 7]>>] :> 42 @@
                       [addr |-> SelfAddress, slot |-> 0,
                        keys |-> <<a, [t |-> "uint256", v |-> 8]>>] :> 0)
          /\ DOMAIN get_result = {Shown(a)}
          /\ get_result[Shown(a)] = ([t |-> "uint256", v |-> 7] :> Word(42))

(***************************************************************************)
(* The storage dump: StorageModel.dump over every declared variable.       *)
(***************************************************************************)
\* a type whose memory_bytes_required exceeds the limit dump passes to get
BytesT(length) == [kind |-> "Bytes", memory_bytes_required |-> 32 + length]

\* the sentinel dump substitutes for None
Truncated == [t |-> "str", s |-> "<truncated>"]

\* the limit StorageModel.dump hands to get
DumpTruncateLimit == 1024

\* the contract's storage variables: compiler_data.global_ctx.variables with
\* their slots from storage_layout
DeclaredVariables ==
    [a |-> [slot |-> 0, typ |-> HashMapT(UintT, UintT)],
     big |-> [slot |-> 1, typ |-> BytesT(2048)],
     mbig |-> [slot |-> 2, typ |-> HashMapT(UintT, BytesT(2048))],
     x |-> [slot |-> 3, typ |-> UintT]]

\* StorageModel.__init__: one StorageVar per storage variable
StorageModel(address) ==
    [k \in DOMAIN DeclaredVariables |->
        [addr |-> address, slot |-> Word(DeclaredVariables[k].slot),
         typ |-> DeclaredVariables[k].typ]]

\* `ty.key_type` / `ty.value_type` in the loop over the path: an attribute error
\* when the path a written key unwinds to has more components than the mapping
\* has levels, for then ty is no HashMapT
get_raises(self) ==
    /\ self.typ.kind = "HashMapT"
    /\ self.addr \in DOMAIN sstore_trace
    /\ \E k \in sstore_trace[self.addr] :
          LET path == unwrap_storage_key(sha3_trace, k).path IN
          /\ to_int(path[1]) = self.slot
          /\ Len(path) - 1 > Depth(self.typ)

\* `t is None` for what v.get returned: the dict get builds for a mapping is
\* never None
is_none(v, t) == v.typ.kind # "HashMapT" /\ t = NoValue

\* the entries of ret: `t = v.get(truncate_limit=1024)`, the sentinel for None
dump_entries(self) ==
    [k \in DOMAIN self |->
        LET t == get(self[k], Limit(DumpTruncateLimit))
        IN  IF is_none(self[k], t) THEN Truncated ELSE t]

dump(self) ==
    IF \E k \in DOMAIN self : get_raises(self[k])
    THEN [outcome |-> "AttributeError"]
    ELSE [outcome |-> "ok", ret |-> dump_entries(self)]

(***************************************************************************)
(* Specification of StorageModel.dump.  The VM has executed up to          *)
(* MaxWrites SSTOREs at the contract's address: to entries of the two      *)
(* mappings, to the plain variables, and to a key hashed one level deeper  *)
(* than mapping `a` has levels (a write made through another layout of the *)
(* same address).                                                          *)
(***************************************************************************)
Key(n) == [t |-> "uint256", v |-> n]

DumpTargets ==
    { [addr |-> SelfAddress, slot |-> 0, keys |-> <<Key(7)>>],
      [addr |-> SelfAddress, slot |-> 0, keys |-> <<Key(8)>>],
      [addr |-> SelfAddress, slot |-> 0, keys |-> <<Key(7), Key(8)>>],
      [addr |-> SelfAddress, slot |-> 1, keys |-> <<>>],
      [addr |-> SelfAddress, slot |-> 2, keys |-> <<Key(7)>>],
      [addr |-> SelfAddress, slot |-> 2, keys |-> <<Key(8)>>],
      [addr |-> SelfAddress, slot |-> 3, keys |-> <<>>] }

DumpWriteSets ==
    {{}} \cup { {f[i] : i \in 1 .. MaxWrites} : f \in [1 .. MaxWrites -> DumpTargets] }

InitDump ==
    /\ pc = "ready"
    /\ UnwrapIdle
    /\ SourceIdle
    /\ TraceIdle
    /\ MatchIdle
    /\ \E ws \in DumpWriteSets : writes \in [ws -> StoredValues]
    /\ sha3_trace = Sha3TraceOf(DOMAIN writes)
    /\ sstore_trace = SstoreTraceOf(DOMAIN writes)
    /\ account_db = AccountDbOf(writes)
    /\ storage_var = [addr |-> 0, slot |-> 0, typ |-> [kind |-> "none"]]
    /\ get_result = EmptyDict
    /\ storage_model = StorageModel(SelfAddress)
    /\ dump_result = [outcome |-> "none"]
    /\ LaterIdleExcept({"dump"})

StorageModelDump ==
    /\ pc = "ready"
    /\ dump_result' = dump(storage_model)
    /\ pc' = "done"
    /\ UNCHANGED <<sha3_trace, unwrap_vars, source_vars, trace_vars, match_vars,
                   storage_vars, storage_model>>
    /\ LaterUnchangedExcept({"dump"})

NextDump == StorageModelDump

SpecDump == InitDump /\ [][NextDump]_vars

\* the entries written under a mapping variable with a word that is not zero
WrittenUnder(name) ==
    { w \in DOMAIN writes :
        /\ w.slot = DeclaredVariables[name].slot
        /\ Len(w.keys) = Depth(DeclaredVariables[name].typ)
        /\ writes[w] # 0 }

Oversized(typ) == typ.memory_bytes_required > DumpTruncateLimit

(***************************************************************************)
(* C11: in a dump that completes, a top-level variable whose type needs    *)
(* more bytes than the truncate limit is shown as the "truncated"          *)
(* sentinel, and so is every leaf written with a non-zero word under a     *)
(* mapping whose value type needs more bytes than the limit: no such value *)
(* is left out.                                                            *)
(***************************************************************************)
C11_OversizedValuesShownTruncated ==
    (pc = "done" /\ dump_result.outcome = "ok") =>
        /\ \A name \in DOMAIN DeclaredVariables :
              LET typ == DeclaredVariables[name].typ IN
              /\ (typ.kind # "HashMapT" /\ Oversized(typ))
                    => dump_result.ret[name] = Truncated
              /\ (typ.kind = "HashMapT" /\ Oversized(value_type_n(typ, Depth(typ))))
                    => \A w \in WrittenUnder(name) :
                          /\ w.keys[1] \in DOMAIN dump_result.ret[name]
                          /\ dump_result.ret[name][w.keys[1]] = Truncated

(***************************************************************************)
(* C12: a decoding failure for one storage variable is confined to that    *)
(* variable's entry: the dump completes and the entries of the other       *)
(* variables are the values stored for them.                               *)
(***************************************************************************)
C12_DumpCompletesDespiteOneFailure ==
    pc = "done" =>
        /\ dump_result.outcome = "ok"
        /\ dump_result.ret.x = Word(IF [addr |-> SelfAddress, slot |-> 3, keys |-> <<>>]
                                          \in DOMAIN writes
                                    THEN writes[[addr |-> SelfAddress, slot |-> 3,
                                                 keys |-> <<>>]]
                                    ELSE 0)

(***************************************************************************)
(* The event decoder: decode_log.  Argument types are static ABI types, an *)
(* encoded value is one 32-byte word, a topic is such a word held as an    *)
(* integer and the data payload is a sequence of such words.               *)
(***************************************************************************)
AbiTypes == {"address", "uint256", "bool"}

KeyError == [outcome |-> "KeyError"]
DecodingError == [outcome |-> "DecodingError"]

\* the word a value of the type is encoded to
abi_encode_word(typ, val) == val.v

\* whether the word is a valid encoding of the type
abi_word_valid(typ, word) ==
    CASE typ = "bool" -> word \in {0, 1}
      [] typ = "address" -> word < 1000
      [] OTHER -> TRUE

\* the python value the word decodes to
abi_decode_word(typ, word) ==
    CASE typ = "bool" -> [t |-> "bool", v |-> word]
      [] typ = "address" -> [t |-> "address", v |-> word]
      [] OTHER -> [t |-> "int", v |-> word]

\* abi_encode of a tuple of static types
abi_encode(typs, vals) ==
    IF Len(typs) # Len(vals)
    THEN [outcome |-> "EncodingError"]
    ELSE [outcome |-> "ok",
          bytes |-> [i \in 1 .. Len(typs) |-> abi_encode_word(typs[i], vals[i])]]

\* abi_decode of a tuple of static types
abi_decode(typs, data) ==
    IF \/ Len(data) < Len(typs)
       \/ \E i \in 1 .. Len(typs) : ~abi_word_valid(typs[i], data[i])
    THEN DecodingError
    ELSE [outcome |-> "ok",
          values |-> [i \in 1 .. Len(typs) |-> abi_decode_word(typs[i], data[i])]]

\* the subsequence of s at the positions where keep holds
RECURSIVE Select(_, _)
Select(s, keep) ==
    IF Len(s) = 0 THEN <<>>
    ELSE (IF keep[1] THEN <<s[1]>> ELSE <<>>) \o Select(Tail(s), Tail(keep))

Negate(flags) == [i \in 1 .. Len(flags) |-> ~flags[i]]

\* zip(a, b): as long as the shorter one
ZipLen(a, b) == IF Len(a) < Len(b) THEN Len(a) ELSE Len(b)

Event(log_id, address, event_type, topics, args) ==
    [log_id |-> log_id, address |-> address, event_type |-> event_type,
     topics |-> topics, args |-> args]

\* a decode_log that pairs the indexed types with the topics from topic 0 on
decode_log_from_topic0(self, e) ==
    LET topics == e[3]
        event_t == self.event_for[topics[1]]
        topic_typs == Select(event_t.arguments, event_t.indexed)
        arg_typs == Select(event_t.arguments, Negate(event_t.indexed))
        n == ZipLen(topic_typs, topics)
        args == abi_decode(arg_typs, e[4])
    IN  IF topics[1] \notin DOMAIN self.event_for THEN KeyError
        ELSE IF \E i \in 1 .. n : ~abi_word_valid(topic_typs[i], topics[i])
        THEN DecodingError
        ELSE IF args.outcome # "ok" THEN DecodingError
        ELSE [outcome |-> "ok",
              event |-> Event(e[1], self._address, event_t,
                              [i \in 1 .. n |-> abi_decode_word(topic_typs[i], topics[i])],
                              args.values)]

decode_log(self, e) ==
    LET log_id == e[1]
        address == e[2]
        topics == e[3]
        data == e[4]
        event_hash == topics[1]
    IN  IF self._address # address THEN AssertionError
        ELSE IF event_hash \notin DOMAIN self.event_for THEN KeyError
        ELSE
        LET event_t == self.event_for[event_hash]
            topic_typs == Select(event_t.arguments, event_t.indexed)
            arg_typs == Select(event_t.arguments, Negate(event_t.indexed))
            rest == Tail(topics)
            n == ZipLen(topic_typs, rest)
            args == abi_decode(arg_typs, data)
        IN  IF \E i \in 1 .. n : ~abi_word_valid(topic_typs[i], rest[i])
            THEN DecodingError
            ELSE IF args.outcome # "ok" THEN DecodingError
            ELSE [outcome |-> "ok",
                  event |-> Event(log_id, self._address, event_t,
                                  [i \in 1 .. n |-> abi_decode_word(topic_typs[i], rest[i])],
                                  args.values)]

(***************************************************************************)
(* Specification of decode_log.  The contract declares one event of up to  *)
(* MaxArgs arguments, each of any of the types and indexed or not; the VM  *)
(* has recorded the log entry of one emission of it.                       *)
(***************************************************************************)
MaxArgs == 3

EventSelector == 100

ValuesOf(typ) ==
    CASE typ = "bool" -> {[t |-> "bool", v |-> 0], [t |-> "bool", v |-> 1]}
      [] typ = "address" -> {[t |-> "address", v |-> 1], [t |-> "address", v |-> 2]}
      [] OTHER -> {[t |-> "int", v |-> 999], [t |-> "int", v |-> 1]}

DeclaredEvents ==
    UNION { { [name |-> "Ev", event_id |-> EventSelector, arguments |-> a, indexed |-> x] :
                a \in [1 .. n -> AbiTypes], x \in [1 .. n -> BOOLEAN] } : n \in 0 .. MaxArgs }

\* the log entry the VM records when the event is emitted with the values
EmittedLog(log_id, address, event_t, values) ==
    << log_id, address,
       <<event_t.event_id>> \o
           [i \in 1 .. Len(Select(values, event_t.indexed)) |->
               abi_encode_word(Select(event_t.arguments, event_t.indexed)[i],
                               Select(values, event_t.indexed)[i])],
       abi_encode(Select(event_t.arguments, Negate(event_t.indexed)),
                  Select(values, Negate(event_t.indexed))).bytes >>

InitDecodeLog ==
    /\ pc = "ready"
    /\ UnwrapIdle
    /\ SourceIdle
    /\ TraceIdle
    /\ MatchIdle
    /\ StorageIdle
    /\ sha3_trace = EmptyDict
    /\ LaterIdleExcept({"decode_log"})
    /\ \E event_t \in DeclaredEvents :
          /\ dl_contract = [_address |-> SelfAddress,
                            event_for |-> (event_t.event_id :> event_t)]
          /\ \E values \in [1 .. Len(event_t.arguments) ->
                               UNION {ValuesOf(t) : t \in AbiTypes}] :
                /\ \A i \in 1 .. Len(values) : values[i] \in ValuesOf(event_t.arguments[i])
                /\ dl_values = values
                /\ dl_entry = EmittedLog(5, SelfAddress, event_t, values)
    /\ dl_result = [outcome |-> "none"]

DecodeLog ==
    /\ pc = "ready"
    /\ dl_result' = decode_log(dl_contract, dl_entry)
    /\ pc' = "done"
    /\ UNCHANGED <<sha3_trace, unwrap_vars, source_vars, trace_vars, match_vars,
                   storage_vars, dl_contract, dl_values, dl_entry>>
    /\ LaterUnchangedExcept({"decode_log"})

NextDecodeLog == DecodeLog

SpecDecodeLog == InitDecodeLog /\ [][NextDecodeLog]_vars

TheEvent == dl_contract.event_for[EventSelector]

(***************************************************************************)
(* C13: decode_log decodes every argument of the declared event once and   *)
(* against its own type, whatever the interleaving of indexed and other    *)
(* arguments: the decoded topics are the values of the indexed arguments   *)
(* in declaration order and the decoded data is the tuple of the values of *)
(* the other arguments in declaration order, so each of the declared       *)
(* arguments appears in exactly one of the two.                            *)
(***************************************************************************)
C13_EveryArgumentDecodedAgainstItsType ==
    pc = "done" =>
        /\ dl_result.outcome = "ok"
        /\ dl_result.event.topics = Select(dl_values, TheEvent.indexed)
        /\ dl_result.event.args = Select(dl_values, Negate(TheEvent.indexed))
        /\ Len(dl_result.event.topics) + Len(dl_result.event.args)
              = Len(TheEvent.arguments)
        /\ dl_result.event.log_id = dl_entry[1]
        /\ dl_result.event.event_type = TheEvent

\* event (indexed address, uint256) with topics [selector, addr_word] and data
\* encoding (999) decodes to addr and 999
C13_Witness ==
    /\ pc = "done"
    /\ TheEvent.arguments = <<"address", "uint256">>
    /\ TheEvent.indexed = <<TRUE, FALSE>>
    /\ dl_entry[3] = <<EventSelector, 2>>
    /\ dl_entry[4] = <<999>>
    /\ dl_result.event.topics = <<[t |-> "address", v |-> 2]>>
    /\ dl_result.event.args = <<[t |-> "int", v |-> 999]>>

(***************************************************************************)
(* The log inspector: _get_logs and get_logs.                              *)
(***************************************************************************)
RawEvent(e) == [kind |-> "RawEvent", event_data |-> e]

\* computation.get_raw_log_entries(): the entries of the computation and of
\* the calls below it
RECURSIVE get_raw_log_entries(_)
get_raw_log_entries(c) ==
    LET RECURSIVE of_children(_)
        of_children(cs) ==
            IF Len(cs) = 0 THEN <<>>
            ELSE get_raw_log_entries(cs[1]) \o of_children(Tail(cs))
    IN  c._log_entries \o of_children(c.children)

_get_logs(c, include_child_logs) ==
    IF include_child_logs THEN get_raw_log_entries(c) ELSE c._log_entries

\* sorted(entries): tuples compare by their first component, the log id, and
\* no two entries of an execution share one
RECURSIVE sorted(_)
sorted(entries) ==
    IF Len(entries) = 0 THEN <<>>
    ELSE LET i == CHOOSE i \in 1 .. Len(entries) :
                      \A j \in 1 .. Len(entries) : entries[i][1] <= entries[j][1]
         IN  <<entries[i]>> \o
             sorted([j \in 1 .. Len(entries) - 1 |->
                        IF j < i THEN entries[j] ELSE entries[j + 1]])

\* one step of `for e in entries`: None when decode_log raised
log_event_of(e) ==
    LET logger_address == e[2] IN
    IF logger_address \in DOMAIN gl_contracts
    THEN decode_log(gl_contracts[logger_address], e)
    ELSE [outcome |-> "ok", event |-> RawEvent(e)]

get_logs(c, include_child_logs) ==
    LET entries == sorted(_get_logs(c, include_child_logs))
        decoded == [i \in 1 .. Len(entries) |-> log_event_of(entries[i])]
    IN  IF \E i \in 1 .. Len(entries) : decoded[i].outcome # "ok"
        THEN [outcome |->
                 decoded[CHOOSE i \in 1 .. Len(entries) :
                            /\ decoded[i].outcome # "ok"
                            /\ \A j \in 1 .. i - 1 : decoded[j].outcome = "ok"].outcome]
        ELSE [outcome |-> "ok", ret |-> [i \in 1 .. Len(entries) |-> decoded[i].event]]

(***************************************************************************)
(* Specification of get_logs.  The contract at SelfAddress has called one  *)
(* other account, a registered contract or an account no contract is       *)
(* registered at; caller and callee have executed up to MaxLogs LOGs       *)
(* between them, in any order, and every call has returned.  A LOG carries *)
(* an event the emitting contract declares or a topic 0 that it does not   *)
(* declare (an event of an interface it implements, or a raw_log).         *)
(***************************************************************************)
MaxLogs == 3

UnregisteredAddress == "unregistered"
UndeclaredTopic == 300

Transfer ==
    [name |-> "Transfer", event_id |-> 100,
     arguments |-> <<"address", "uint256">>, indexed |-> <<TRUE, FALSE>>]
Ping ==
    [name |-> "Ping", event_id |-> 200, arguments |-> <<"uint256">>, indexed |-> <<FALSE>>]

Registry ==
    (SelfAddress :> [_address |-> SelfAddress, event_for |-> (100 :> Transfer)] @@
     OtherAddress :> [_address |-> OtherAddress, event_for |-> (200 :> Ping)])

Emissions == [by : {"caller", "callee"}, declared : BOOLEAN]

\* the entry the VM appends for the i-th LOG of the execution
EntryOf(i, emission, callee) ==
    LET address == IF emission.by = "caller" THEN SelfAddress ELSE callee IN
    IF emission.declared /\ address = SelfAddress
    THEN EmittedLog(i, address, Transfer,
                    <<[t |-> "address", v |-> 2], [t |-> "int", v |-> 999]>>)
    ELSE IF emission.declared /\ address = OtherAddress
    THEN EmittedLog(i, address, Ping, <<[t |-> "int", v |-> i]>>)
    ELSE <<i, address, <<UndeclaredTopic>>, <<>> >>

EntriesBy(who, emissions, callee) ==
    LET all == [i \in 1 .. Len(emissions) |-> EntryOf(i, emissions[i], callee)]
    IN  Select(all, [i \in 1 .. Len(emissions) |-> emissions[i].by = who])

ComputationOf(emissions, callee) ==
    [_log_entries |-> EntriesBy("caller", emissions, callee),
     children |-> << [_log_entries |-> EntriesBy("callee", emissions, callee),
                      children |-> <<>>] >>]

InitGetLogs ==
    /\ pc = "ready"
    /\ UnwrapIdle
    /\ SourceIdle
    /\ TraceIdle
    /\ MatchIdle
    /\ StorageIdle
    /\ sha3_trace = EmptyDict
    /\ LaterIdleExcept({"get_logs"})
    /\ gl_contracts = Registry
    /\ gl_emissions \in SeqsUpTo(Emissions, MaxLogs)
    /\ \E callee \in {OtherAddress, UnregisteredAddress} :
          gl_computation = ComputationOf(gl_emissions, callee)
    /\ gl_include_child_logs \in BOOLEAN
    /\ gl_result = [outcome |-> "none"]

GetLogs ==
    /\ pc = "ready"
    /\ gl_result' = get_logs(gl_computation, gl_include_child_logs)
    /\ pc' = "done"
    /\ UNCHANGED <<sha3_trace, unwrap_vars, source_vars, trace_vars, match_vars,
                   storage_vars, gl_contracts, gl_emissions, gl_computation,
                   gl_include_child_logs>>
    /\ LaterUnchangedExcept({"get_logs"})

NextGetLogs == GetLogs

SpecGetLogs == InitGetLogs /\ [][NextGetLogs]_vars

\* the raw entries get_logs is to report, in the order of their log ids
ExpectedEntries ==
    LET callee == IF Len(gl_computation.children[1]._log_entries) > 0
                  THEN gl_computation.children[1]._log_entries[1][2]
                  ELSE OtherAddress
        all == [i \in 1 .. Len(gl_emissions) |-> EntryOf(i, gl_emissions[i], callee)]
    IN  Select(all, [i \in 1 .. Len(gl_emissions) |->
                        gl_include_child_logs \/ gl_emissions[i].by = "caller"])

Undeclared(e) ==
    /\ e[2] \in DOMAIN gl_contracts
    /\ e[3][1] \notin DOMAIN gl_contracts[e[2]].event_for

(***************************************************************************)
(* C14: an entry whose topic 0 is not the selector of an event its         *)
(* contract declares does not abort get_logs: get_logs returns, that entry *)
(* is shown as a raw event and the other entries are decoded.              *)
(***************************************************************************)
C14_UndeclaredTopicGivesRawEvent ==
    pc = "done" =>
        /\ gl_result.outcome = "ok"
        /\ Len(gl_result.ret) = Len(ExpectedEntries)
        /\ \A i \in 1 .. Len(ExpectedEntries) :
              LET e == ExpectedEntries[i] IN
              IF Undeclared(e) \/ e[2] \notin DOMAIN gl_contracts
              THEN gl_result.ret[i] = RawEvent(e)
              ELSE gl_result.ret[i] = decode_log(gl_contracts[e[2]], e).event

(***************************************************************************)
(* C15: get_logs returns one event per raw log entry of the call tree, or  *)
(* of the computation alone when child logs are excluded, in strictly      *)
(* ascending log id whatever the order of emission; an entry is decoded by *)
(* the contract registered at its logger address and is a raw event when   *)
(* none is registered there.                                               *)
(***************************************************************************)
C15_OneEventPerEntryInLogIdOrder ==
    pc = "done" =>
        /\ gl_result.outcome = "ok"
        /\ Len(gl_result.ret) = Len(ExpectedEntries)
        /\ \A i \in 1 .. Len(ExpectedEntries) :
              LET e == ExpectedEntries[i]
                  ev == gl_result.ret[i]
              IN  IF e[2] \in DOMAIN gl_contracts
                  THEN /\ ev.log_id = e[1]
                       /\ ev.address = e[2]
                       /\ ev.event_type \in
                             {gl_contracts[e[2]].event_for[k] :
                                 k \in DOMAIN gl_contracts[e[2]].event_for}
                  ELSE ev = RawEvent(e)
        /\ \A i \in 1 .. Len(ExpectedEntries) - 1 :
              ExpectedEntries[i][1] < ExpectedEntries[i + 1][1]

(***************************************************************************)
(* The call encoder: VyperFunction.args_abi_type and prepare_calldata.     *)
(***************************************************************************)
\* ",".join(...)
RECURSIVE join(_)
join(strs) ==
    IF Len(strs) = 0 THEN ""
    ELSE IF Len(strs) = 1 THEN strs[1]
    ELSE strs[1] \o "," \o join(Tail(strs))

\* method_id(abi_sig): the first four bytes of the hash of the signature, one
\* selector per signature string
method_id(abi_sig) == [selector |-> abi_sig]

\* s[:n]
Prefix(s, n) == SubSeq(s, 1, IF n < Len(s) THEN n ELSE Len(s))

\* the types of the signature for num_kwargs keyword arguments
sig_arg_types(func_t, num_kwargs) ==
    LET sig_kwargs == Prefix(func_t.keyword_args, num_kwargs)
        sig_args == func_t.positional_args \o sig_kwargs
    IN  [i \in 1 .. Len(sig_args) |-> sig_args[i].typ]

args_abi_type(self, num_kwargs) ==
    LET typs == sig_arg_types(self.func_t, num_kwargs)
        abi_type == "(" \o join(typs) \o ")"
        abi_sig == self.func_t.name \o abi_type
    IN  [_method_id |-> method_id(abi_sig), args_abi_type |-> abi_type, typs |-> typs]

\* getattr(arg, "address", arg)
address_of(arg) == IF "address" \in DOMAIN arg THEN arg.address ELSE arg

NoEncoderCall == [called |-> FALSE]

prepare_calldata(self, args, kwargs) ==
    LET n_total_args == Len(self.func_t.positional_args) + Len(self.func_t.keyword_args)
        n_pos_args == Len(self.func_t.positional_args)
        total_non_base_args == Cardinality(DOMAIN kwargs) + Len(args) - n_pos_args
        values == [i \in 1 .. Len(args) |-> address_of(args[i])]
        sig == args_abi_type(self, total_non_base_args)
        encoded_args == abi_encode(sig.typs, values)
        handed == [called |-> TRUE, typs |-> sig.typs, values |-> values]
    IN  IF ~(n_pos_args <= Len(args) /\ Len(args) <= n_total_args)
        THEN [outcome |-> "Exception", encoder |-> NoEncoderCall]
        ELSE IF encoded_args.outcome # "ok"
        THEN [outcome |-> encoded_args.outcome, encoder |-> handed]
        ELSE IF self.func_t.is_constructor \/ self.func_t.is_fallback
        THEN [outcome |-> "ok", encoder |-> handed, calldata |-> encoded_args.bytes]
        ELSE [outcome |-> "ok", encoder |-> handed,
              calldata |-> <<sig._method_id>> \o encoded_args.bytes]

(***************************************************************************)
(* Specification of prepare_calldata.  A function declares up to           *)
(* MaxPositional required and up to MaxKeyword defaulted arguments (the    *)
(* constructor declares no defaulted argument and the fallback none at     *)
(* all); it is called with any number of positional arguments and with     *)
(* values for any of its keyword arguments.                                *)
(***************************************************************************)
MaxPositional == 2
MaxKeyword == 2

PositionalArg(i) ==
    [name |-> "a" \o ToString(i), typ |-> IF i % 2 = 1 THEN "address" ELSE "uint256"]
KeywordArg(j) ==
    [name |-> "k" \o ToString(j), typ |-> IF j % 2 = 1 THEN "bool" ELSE "uint256"]

FunctionTypes ==
    { [name |-> "f", is_constructor |-> FALSE, is_fallback |-> FALSE,
       positional_args |-> [i \in 1 .. np |-> PositionalArg(i)],
       keyword_args |-> [j \in 1 .. nk |-> KeywordArg(j)]] :
        np \in 0 .. MaxPositional, nk \in 0 .. MaxKeyword }
    \cup
    { [name |-> "__init__", is_constructor |-> TRUE, is_fallback |-> FALSE,
       positional_args |-> [i \in 1 .. np |-> PositionalArg(i)],
       keyword_args |-> <<>>] : np \in 0 .. MaxPositional }
    \cup
    { [name |-> "__default__", is_constructor |-> FALSE, is_fallback |-> TRUE,
       positional_args |-> <<>>, keyword_args |-> <<>>] }

\* the values a caller passes: a contract object where an address is expected
ContractObject(n) == [t |-> "contract", v |-> 0, address |-> [t |-> "address", v |-> n]]

PositionalValue(typ, i) ==
    CASE typ = "address" -> ContractObject(i)
      [] typ = "bool" -> [t |-> "bool", v |-> 1]
      [] OTHER -> [t |-> "int", v |-> 10 + i]

KeywordValue(typ, j) ==
    CASE typ = "bool" -> [t |-> "bool", v |-> 0]
      [] OTHER -> [t |-> "int", v |-> 70 + j]

AllArgs(func_t) == func_t.positional_args \o func_t.keyword_args

CallArgs(func_t) ==
    { [i \in 1 .. n |->
          IF i <= Len(AllArgs(func_t))
          THEN PositionalValue(AllArgs(func_t)[i].typ, i)
          ELSE [t |-> "int", v |-> 10 + i]] : n \in 0 .. MaxPositional + MaxKeyword + 1 }

CallKwargs(func_t) ==
    { [name \in { func_t.keyword_args[j].name : j \in js } |->
          LET j == CHOOSE j \in js : func_t.keyword_args[j].name = name
          IN  KeywordValue(func_t.keyword_args[j].typ, j)] :
        js \in SUBSET (1 .. Len(func_t.keyword_args)) }

InitCalldata ==
    /\ pc = "ready"
    /\ UnwrapIdle
    /\ SourceIdle
    /\ TraceIdle
    /\ MatchIdle
    /\ StorageIdle
    /\ sha3_trace = EmptyDict
    /\ LaterIdleExcept({"calldata"})
    /\ \E func_t \in FunctionTypes :
          /\ pcd_fn = [func_t |-> func_t]
          /\ pcd_args \in CallArgs(func_t)
          /\ pcd_kwargs \in CallKwargs(func_t)
    /\ pcd_result = [outcome |-> "none"]

PrepareCalldata ==
    /\ pc = "ready"
    /\ pcd_result' = prepare_calldata(pcd_fn, pcd_args, pcd_kwargs)
    /\ pc' = "done"
    /\ UNCHANGED <<sha3_trace, unwrap_vars, source_vars, trace_vars, match_vars,
                   storage_vars, pcd_fn, pcd_args, pcd_kwargs>>
    /\ LaterUnchangedExcept({"calldata"})

NextCalldata == PrepareCalldata

SpecCalldata == InitCalldata /\ [][NextCalldata]_vars

RequiredCount == Len(pcd_fn.func_t.positional_args)
TotalCount == Len(AllArgs(pcd_fn.func_t))
Accepted == RequiredCount <= Len(pcd_args) /\ Len(pcd_args) <= TotalCount

\* N: the non-base arguments supplied, by position or by keyword
NonBaseSupplied == Len(pcd_args) - RequiredCount + Cardinality(DOMAIN pcd_kwargs)

ChosenTypes ==
    LET chosen == SubSeq(AllArgs(pcd_fn.func_t), 1,
                         IF RequiredCount + NonBaseSupplied < TotalCount
                         THEN RequiredCount + NonBaseSupplied ELSE TotalCount)
    IN  [i \in 1 .. Len(chosen) |-> chosen[i].typ]

\* the values of the call laid out by declared position
SuppliedWords ==
    [i \in 1 .. Len(ChosenTypes) |->
        IF i <= Len(pcd_args) THEN address_of(pcd_args[i]).v
        ELSE IF AllArgs(pcd_fn.func_t)[i].name \in DOMAIN pcd_kwargs
        THEN pcd_kwargs[AllArgs(pcd_fn.func_t)[i].name].v
        ELSE 0 - 1]

(***************************************************************************)
(* C16: for an accepted call prepare_calldata returns the selector of the  *)
(* signature made of the function's name, its positional argument types    *)
(* and its first N keyword argument types (N the number of non-base        *)
(* arguments supplied), followed by the encoded arguments; for the         *)
(* constructor and for the fallback it returns the encoded arguments       *)
(* alone.                                                                  *)
(***************************************************************************)
C16_SelectorThenBodyUnlessCtorOrFallback ==
    (pc = "done" /\ Accepted) =>
        /\ pcd_result.outcome = "ok"
        /\ IF pcd_fn.func_t.is_constructor \/ pcd_fn.func_t.is_fallback
           THEN pcd_result.calldata = SuppliedWords
           ELSE /\ Len(pcd_result.calldata) = 1 + Len(SuppliedWords)
                /\ pcd_result.calldata[1] =
                      method_id(pcd_fn.func_t.name \o "(" \o join(ChosenTypes) \o ")")
                /\ Tail(pcd_result.calldata) = SuppliedWords

(***************************************************************************)
(* C19: for an accepted call the encoder is handed as many values as the   *)
(* chosen signature has types, and the value of every keyword argument     *)
(* supplied stands at that argument's declared position; a call whose      *)
(* positional count is out of range is rejected before the encoder is      *)
(* called.                                                                 *)
(***************************************************************************)
C19_ValuesMatchSignature ==
    pc = "done" =>
        IF Accepted
        THEN /\ pcd_result.encoder.called
             /\ Len(pcd_result.encoder.values) = Len(pcd_result.encoder.typs)
             /\ \A i \in 1 .. TotalCount :
                   AllArgs(pcd_fn.func_t)[i].name \in DOMAIN pcd_kwargs
                      => /\ i <= Len(pcd_result.encoder.values)
                         /\ pcd_result.encoder.values[i]
                               = pcd_kwargs[AllArgs(pcd_fn.func_t)[i].name]
        ELSE /\ pcd_result.outcome = "Exception"
             /\ ~pcd_result.encoder.called

(***************************************************************************)
(* The inspection operations and what they do to what they read.  Memory   *)
(* is a sequence of 32-byte words; offsets and sizes are counted in words. *)
(***************************************************************************)
\* Memory.extend(start_position, size): grows the memory with zero words up to
\* start_position + size, and leaves a memory that is long enough alone
mem_extend(mem, start_position, size) ==
    IF size = 0 THEN mem
    ELSE IF start_position + size <= Len(mem) THEN mem
    ELSE mem \o [i \in 1 .. start_position + size - Len(mem) |-> 0]

\* Memory.read(ofst, size)
mem_read(mem, ofst, size) == SubSeq(mem, ofst + 1, ofst + size)

\* computation._memory after debug_frame(computation) has run
memory_after_debug_frame(self, c) ==
    LET fn == _get_fn_from_computation(self, c) IN
    IF fn = None THEN c._memory
    ELSE LET frame_info == self.compiler_data.function_signatures[fn]._ir_info.frame_info
         IN  mem_extend(c._memory, frame_info.frame_start, frame_info.frame_size)

\* the frame detail debug_frame(computation) returns
debug_frame_locals(self, c) ==
    LET fn == _get_fn_from_computation(self, c) IN
    IF fn = None THEN NoFrame
    ELSE LET frame_info == self.compiler_data.function_signatures[fn]._ir_info.frame_info
             mem == memory_after_debug_frame(self, c)
             in_memory == { k \in DOMAIN frame_info.frame_vars :
                              frame_info.frame_vars[k].location = "memory" }
         IN  [fn_name |-> fn,
              items |-> [k \in in_memory |->
                            mem_read(mem, frame_info.frame_vars[k].pos,
                                     frame_info.frame_vars[k].size)]]

\* ErrorDetail.__str__: the contract, the compiler detail and the locals,
\* whose displayed name it overrides on the ErrorDetail itself
error_detail_str(detail) ==
    [msg |-> detail.contract_repr \o
             (IF detail.error_detail # None
              THEN " <compiler: " \o detail.error_detail \o ">" ELSE ""),
     frame_detail |-> IF detail.frame_detail # NoFrame
                      THEN [detail.frame_detail EXCEPT !.fn_name = "locals"]
                      ELSE NoFrame]

(***************************************************************************)
(* Specification of the inspection operations.  A call of function foo, or *)
(* a call that cannot be attributed to a function, has ended with up to    *)
(* MaxMemory words of memory, one storage write and one log entry; one of  *)
(* the inspection operations is then applied to it.                        *)
(***************************************************************************)
MaxMemory == 4

FrameStart == 2

FrameInfos ==
    { [frame_start |-> FrameStart, frame_size |-> n,
       frame_vars |-> [k \in (IF n > 0 THEN {"x"} ELSE {}) |->
                          [location |-> "memory", pos |-> FrameStart, size |-> 1]]] :
        n \in 0 .. 2 }

InspectedContract(frame_info) ==
    [address |-> 1,
     repr |-> Artifact(1).repr,
     source_map |-> Artifact(1).source_map,
     ast_map |-> Artifact(1).ast_map,
     compiler_data |->
        [source_code |-> ArtifactSourceCode,
         function_signatures |-> [foo |-> [_ir_info |-> [frame_info |-> frame_info]]]]]

InspectedWrite == [addr |-> SelfAddress, slot |-> 0, keys |-> <<Key(7)>>]

InspectedLog ==
    EmittedLog(1, SelfAddress, Transfer,
               <<[t |-> "address", v |-> 2], [t |-> "int", v |-> 999]>>)

InspectInputs == <<insp_computation, sha3_trace, sstore_trace, account_db>>

InitInspect ==
    /\ pc = "ready"
    /\ UnwrapIdle
    /\ SourceIdle
    /\ TraceIdle
    /\ MatchIdle
    /\ writes = (InspectedWrite :> 42)
    /\ sha3_trace = Sha3TraceOf(DOMAIN writes)
    /\ sstore_trace = SstoreTraceOf(DOMAIN writes)
    /\ account_db = AccountDbOf(writes)
    /\ storage_var = [addr |-> 0, slot |-> 0, typ |-> [kind |-> "none"]]
    /\ get_result = EmptyDict
    /\ storage_model = StorageModel(SelfAddress)
    /\ dump_result = [outcome |-> "none"]
    /\ gl_contracts = Registry
    /\ gl_emissions = <<>>
    /\ gl_computation = [_log_entries |-> <<>>, children |-> <<>>]
    /\ gl_include_child_logs = TRUE
    /\ gl_result = [outcome |-> "none"]
    /\ LaterIdleExcept({"dump", "get_logs", "inspect"})
    /\ \E frame_info \in FrameInfos : insp_contract = InspectedContract(frame_info)
    /\ \E n \in 0 .. MaxMemory, trace \in {<<1>>, <<5, 6>>, <<4>>, <<7>>} :
          insp_computation =
              [code |-> [_trace |-> trace],
               _memory |-> [i \in 1 .. n |-> 100 + i],
               error |-> ErrorString("bar"),
               _contract_repr_before_revert |-> None,
               msg |-> [code_address |-> 1],
               children |-> <<>>,
               _log_entries |-> <<InspectedLog>>]
    /\ insp_op = "none"
    /\ insp_result = [outcome |-> "none"]

InspectFrame ==
    UNCHANGED <<sha3_trace, unwrap_vars, source_vars, trace_vars, match_vars,
                storage_vars, dump_vars, get_logs_vars, insp_contract>>
    /\ LaterUnchangedExcept({"dump", "get_logs", "inspect"})

\* contract.debug_frame(computation)
InspectDebugFrame ==
    /\ pc = "ready"
    /\ insp_op' = "debug_frame"
    /\ insp_result' = [outcome |-> "ok",
                       ret |-> debug_frame_locals(insp_contract, insp_computation)]
    /\ insp_computation' =
          [insp_computation EXCEPT
              !._memory = memory_after_debug_frame(insp_contract, insp_computation)]
    /\ pc' = "done"
    /\ InspectFrame

\* contract.stack_trace(computation) and printing the frame it returns:
\* from_computation calls debug_frame
InspectStackTrace ==
    /\ pc = "ready"
    /\ insp_op' = "stack_trace"
    /\ insp_result' =
          [outcome |-> "ok",
           ret |-> error_detail_str(
                      [from_computation(insp_contract, insp_computation) EXCEPT
                          !.frame_detail =
                              debug_frame_locals(insp_contract, insp_computation)])]
    /\ insp_computation' =
          [insp_computation EXCEPT
              !._memory = memory_after_debug_frame(insp_contract, insp_computation)]
    /\ pc' = "done"
    /\ InspectFrame

\* contract._storage.dump()
InspectStorageDump ==
    /\ pc = "ready"
    /\ insp_op' = "dump"
    /\ insp_result' = dump(storage_model)
    /\ insp_computation' = insp_computation
    /\ pc' = "done"
    /\ InspectFrame

\* contract.get_logs(computation)
InspectGetLogs ==
    /\ pc = "ready"
    /\ insp_op' = "get_logs"
    /\ \E include_child_logs \in BOOLEAN :
          insp_result' = get_logs(insp_computation, include_child_logs)
    /\ insp_computation' = insp_computation
    /\ pc' = "done"
    /\ InspectFrame

NextInspect ==
    \/ InspectDebugFrame
    \/ InspectStackTrace
    \/ InspectStorageDump
    \/ InspectGetLogs

SpecInspect == InitInspect /\ [][NextInspect]_vars

(***************************************************************************)
(* C17: an inspection operation leaves what it reads as it found it: the   *)
(* visited pcs, the memory contents and size, the child calls and the log  *)
(* entries of the computation, the preimage database, the storage-write    *)
(* log and the account storage.                                            *)
(***************************************************************************)
C17_InspectionLeavesInputsUnchanged ==
    [][InspectInputs' = InspectInputs]_vars

(***************************************************************************)
(* A deployed contract over a sequence of operations: its caches           *)
(* (cached_property values, _signature_cache, _eval_cache), its anchored   *)
(* source map and its last computation.                                    *)
(***************************************************************************)
\* a cached_property that has not been evaluated, and no computation so far
NotCached == [cached |-> FALSE]
Cached(value) == [cached |-> TRUE, value |-> value]
NoComputation == [none |-> TRUE]
\* self._source_map = None
NoSourceMap == [none |-> TRUE]

\* the source map of the deployed runtime code, and the source maps compiled
\* with an internal function's wrapper, an injected function or an eval statement
SourceMapOf(unit) ==
    [unit |-> unit,
     error_map |-> (1 :> unit \o " detail"),
     pc_pos_map |-> (1 :> 1)]
MainSourceMap == SourceMapOf("runtime")

\* global_ctx.immutable_section_bytes, in words
data_section_size == 1

\* bytecode[-data_section_size:]
data_section_of(bytecode) ==
    IF data_section_size # 0
    THEN SubSeq(bytecode, Len(bytecode) - data_section_size + 1, Len(bytecode))
    ELSE <<>>

\* ImmutablesModel.__init__: every immutable decoded from the data section
immutables_of(section) == [imm |-> [t |-> "int", v |-> section[1]]]

\* the data_section cached_property: evaluated on first access only
data_section(self) ==
    IF self.cache_data_section.cached THEN self
    ELSE [self EXCEPT !.cache_data_section = Cached(data_section_of(self.bytecode))]

\* the _immutables cached_property
_immutables(self) ==
    IF self.cache_immutables.cached THEN self
    ELSE LET read == data_section(self) IN
         [read EXCEPT !.cache_immutables =
                          Cached(immutables_of(read.cache_data_section.value))]

_set_bytecode(self, bytecode) == [self EXCEPT !.bytecode = bytecode]

\* the source_map property: compiled on first use when nothing is anchored
source_map(self) ==
    IF self._source_map = NoSourceMap THEN MainSourceMap ELSE self._source_map

\* the functions of the contract: f is external, g internal, h injected
SessionFunction(kind) ==
    [func_t |-> [name |-> kind, is_constructor |-> FALSE, is_fallback |-> FALSE,
                 positional_args |-> <<PositionalArg(1)>>,
                 keyword_args |-> [j \in 1 .. MaxKeyword |-> KeywordArg(j)]]]

\* VyperFunction._source_map and its overrides
fn_source_map(self, kind) ==
    CASE kind = "external" -> source_map(self)
      [] kind = "internal" -> SourceMapOf("internal")
      [] OTHER -> SourceMapOf(self.inject[kind])

\* args_abi_type with its _signature_cache
args_abi_type_cached(self, kind, num_kwargs) ==
    IF <<kind, num_kwargs>> \in DOMAIN self._signature_cache THEN self
    ELSE [self EXCEPT !._signature_cache =
             DictSet(self._signature_cache, <<kind, num_kwargs>>,
                     [_method_id |-> args_abi_type(SessionFunction(kind), num_kwargs)._method_id,
                      args_abi_type |-> args_abi_type(SessionFunction(kind), num_kwargs).args_abi_type])]

\* generate_bytecode_for_arbitrary_stmt(stmt, self)
compiled_stmt(stmt) == [stmt |-> stmt, source_map |-> SourceMapOf("eval " \o stmt)]

\* env.execute_code under _anchor_source_map(anchored), then marshal_to_python:
\* the computation is recorded, and the source map that was there before
\* the call is there again when the call is over, returned or reverted
execute_anchored(self, anchored, id, is_error) ==
    LET tmp == self._source_map
        during == [self EXCEPT !._source_map = anchored]
        marshalled == [during EXCEPT !._computation =
                          [id |-> id, code |-> [_trace |-> <<1>>],
                           is_error |-> is_error, anchored |-> during._source_map]]
    IN  [marshalled EXCEPT !._source_map = tmp]

\* VyperFunction.__call__ with num_kwargs non-base arguments
call(self, kind, num_kwargs, id, is_error) ==
    LET prepared == args_abi_type_cached(self, kind, num_kwargs)
        anchored == fn_source_map(prepared, kind)
        \* reading contract.source_map stores the compiled map
        read == IF kind = "external"
                THEN [prepared EXCEPT !._source_map = anchored] ELSE prepared
    IN  execute_anchored(read, anchored, id, is_error)

\* VyperContract.eval
eval(self, stmt, id, is_error) ==
    LET looked_up == IF stmt \in DOMAIN self._eval_cache THEN self
                     ELSE [self EXCEPT !._eval_cache =
                              DictSet(self._eval_cache, stmt, compiled_stmt(stmt))]
    IN  execute_anchored(looked_up, looked_up._eval_cache[stmt].source_map, id, is_error)

\* VyperContract.inject_function: the injected function with its source
inject_function(self, name, fn_source_code, force) ==
    IF name \in DOMAIN self.inject /\ ~force THEN self
    ELSE [self EXCEPT !.inject = DictSet(self.inject, name, fn_source_code)]

(***************************************************************************)
(* Specification of a session of up to MaxSteps operations on a deployed   *)
(* contract with one immutable.                                            *)
(***************************************************************************)
MaxSteps == 3

DeployedBytecode == <<1, 2, 7>>
\* the code of another deployment of the same program: another immutable value
CastBytecodes == {<<1, 2, 7>>, <<1, 2, 8>>}

InitSession ==
    /\ pc = "ready"
    /\ UnwrapIdle
    /\ SourceIdle
    /\ TraceIdle
    /\ MatchIdle
    /\ StorageIdle
    /\ sha3_trace = EmptyDict
    /\ LaterIdleExcept({"session"})
    /\ ses_contract = [bytecode |-> DeployedBytecode,
                       cache_data_section |-> NotCached,
                       cache_immutables |-> NotCached,
                       _signature_cache |-> EmptyDict,
                       _eval_cache |-> EmptyDict,
                       inject |-> EmptyDict,
                       _source_map |-> NoSourceMap,
                       _computation |-> NoComputation]
    /\ ses_executions = 0
    /\ ses_steps = 0

SessionFrame ==
    /\ ses_steps < MaxSteps
    /\ ses_steps' = ses_steps + 1
    /\ UNCHANGED <<pc, sha3_trace, unwrap_vars, source_vars, trace_vars, match_vars,
                   storage_vars>>
    /\ LaterUnchangedExcept({"session"})

Call ==
    /\ SessionFrame
    /\ \E kind \in {"external", "internal"} \cup DOMAIN ses_contract.inject,
          num_kwargs \in 0 .. MaxKeyword, is_error \in BOOLEAN :
          ses_contract' = call(ses_contract, kind, num_kwargs, ses_executions + 1, is_error)
    /\ ses_executions' = ses_executions + 1

Eval ==
    /\ SessionFrame
    /\ \E stmt \in {"self.x", "self.y"}, is_error \in BOOLEAN :
          ses_contract' = eval(ses_contract, stmt, ses_executions + 1, is_error)
    /\ ses_executions' = ses_executions + 1

InjectFunction ==
    /\ SessionFrame
    /\ \E fn_source_code \in {"h v1", "h v2"}, force \in BOOLEAN :
          ses_contract' = inject_function(ses_contract, "h", fn_source_code, force)
    /\ UNCHANGED ses_executions

SetBytecode ==
    /\ SessionFrame
    /\ \E bytecode \in CastBytecodes :
          ses_contract' = _set_bytecode(ses_contract, bytecode)
    /\ UNCHANGED ses_executions

ReadImmutables ==
    /\ SessionFrame
    /\ ses_contract' = _immutables(ses_contract)
    /\ UNCHANGED ses_executions

NextSession ==
    \/ Call
    \/ Eval
    \/ InjectFunction
    \/ SetBytecode
    \/ ReadImmutables

SpecSession == InitSession /\ [][NextSession]_vars

(***************************************************************************)
(* C18: after any sequence of operations every cached value equals what    *)
(* deriving it again from the contract's current inputs gives: the         *)
(* selector and signature per keyword count, the data section and the      *)
(* immutables of the current bytecode, the compiled form of every eval     *)
(* statement.                                                              *)
(***************************************************************************)
C18_CachedEqualsRederived ==
    /\ \A key \in DOMAIN ses_contract._signature_cache :
          /\ ses_contract._signature_cache[key]._method_id
                = args_abi_type(SessionFunction(key[1]), key[2])._method_id
          /\ ses_contract._signature_cache[key].args_abi_type
                = args_abi_type(SessionFunction(key[1]), key[2]).args_abi_type
    /\ ses_contract.cache_data_section.cached
          => ses_contract.cache_data_section.value = data_section_of(ses_contract.bytecode)
    /\ ses_contract.cache_immutables.cached
          => ses_contract.cache_immutables.value
                = immutables_of(data_section_of(ses_contract.bytecode))
    /\ \A stmt \in DOMAIN ses_contract._eval_cache :
          ses_contract._eval_cache[stmt] = compiled_stmt(stmt)

(***************************************************************************)
(* C20: after any sequence of calls and evals, returned or reverted, the   *)
(* contract's last computation is that of the most recent execution, and   *)
(* an inspection of it that names no source map resolves its program       *)
(* counters against the source map that was anchored while it executed.    *)
(***************************************************************************)
C20_LastComputationResolvedAgainstItsMap ==
    ses_executions > 0 =>
        /\ ses_contract._computation # NoComputation
        /\ ses_contract._computation.id = ses_executions
        /\ source_map(ses_contract) = ses_contract._computation.anchored
        /\ find_error_meta([source_map |-> source_map(ses_contract)],
                           ses_contract._computation)
              = ses_contract._computation.anchored.error_map[1]

(***************************************************************************)
(* The browser bridge of boa/integrations/jupyter/browser.py.              *)
(* _javascript_call hands a Javascript snippet to the notebook frontend    *)
(* and, outside Google Colab, waits for the reply in a shared-memory block *)
(* that the frontend's callback fills in from another process.  The block  *)
(* is a sequence of bytes; a byte stands for one lexical unit of the reply *)
(* text: "d" opens a reply object with a "data" member, "e" one with an    *)
(* "error" member, "o" an object with neither, "x" is text that is no JSON *)
(* at all; the bytes that follow are the member's value.                   *)
(***************************************************************************)

\* constants.NUL, the byte an unset buffer starts with
NUL == "NUL"

ReplyBytes == {"d", "e", "o", "x"}

ByteValues == {NUL} \cup ReplyBytes

\* the size of a block, in bytes
MaxBuffer == 2

\* constants.SHARED_MEMORY_LENGTH
SHARED_MEMORY_LENGTH == MaxBuffer

\* constants.CALLBACK_TOKEN_TIMEOUT.total_seconds(), in units of loop time
CALLBACK_TOKEN_TIMEOUT == 2

\* constants.ADDRESS_TIMEOUT_MESSAGE, constants.RPC_TIMEOUT_MESSAGE
TimeoutMessages == {"address timeout", "rpc timeout"}

Buffers == [1 .. SHARED_MEMORY_LENGTH -> ByteValues]

NoOutcome == [kind |-> "none", exc |-> "", data |-> <<>>, text |-> ""]

Return(data) == [kind |-> "return", exc |-> "", data |-> data, text |-> ""]

Raise(exc, data, text) == [kind |-> "raise", exc |-> exc, data |-> data, text |-> text]

\* bytes.startswith(NUL)
startswith_nul(bytes) == Len(bytes) > 0 /\ bytes[1] = NUL

\* a split that keeps the bytes after the first NUL
split_nul_whole(bytes) == bytes

\* bytes.split(NUL)[0]: all of bytes when there is no NUL in it
RECURSIVE split_nul_first(_)
split_nul_first(bytes) ==
    IF bytes = <<>> \/ Head(bytes) = NUL
    THEN <<>>
    ELSE <<Head(bytes)>> \o split_nul_first(Tail(bytes))

\* d.get(key, default)
dict_get(d, key, default) == IF key \in DOMAIN d THEN d[key] ELSE default

\* json.loads(message_bytes.decode()): a dict, or how it failed
json_loads(message_bytes) ==
    IF message_bytes = <<>> \/ Head(message_bytes) = "x"
    THEN Raise("JSONDecodeError", <<>>, "")
    ELSE Return(CASE Head(message_bytes) = "d" -> [data |-> Tail(message_bytes)]
                  [] Head(message_bytes) = "e" ->
                        [error |-> [message |-> Tail(message_bytes)]]
                  [] OTHER -> [other |-> Tail(message_bytes)])

_parse_js_result(result) ==
    IF "data" \in DOMAIN result
    THEN Return(result["data"])
    ELSE IF "error" \notin DOMAIN result
    THEN Raise("KeyError", <<>>, "error")
    ELSE LET err == result["error"]
             inner == dict_get(dict_get(err, "info", err), "error", err)
         IN  Raise("RPCError", dict_get(inner, "message", inner),
                   dict_get(inner, "code", "CALLBACK_ERROR"))

\* constants.PLUGIN_NAME
PLUGIN_NAME == "titanoboa_jupyterlab"

\* f"{PLUGIN_NAME}_{urandom(CALLBACK_TOKEN_BYTES).hex()}"
_generate_token(random) == PLUGIN_NAME \o "_" \o ToString(random)

\* an unlink that leaves the block in place
unlink_nothing(blocks, name) == blocks

\* memory.unlink()
unlink(blocks, name) == [n \in DOMAIN blocks \ {name} |-> blocks[n]]

(***************************************************************************)
(* Specification of up to MaxCalls calls of _javascript_call, one after    *)
(* the other, on a host that is or is not Google Colab and has or has not  *)
(* a running event loop.  urandom draws one of MaxTokens values; a fresh   *)
(* block holds any bytes.  The frontend, once the Javascript is displayed, *)
(* may post a reply into the block of that name for as long as it is       *)
(* linked and unset.  sleep(0.01) takes one or two units of loop time.     *)
(***************************************************************************)
MaxCalls == 2
MaxTokens == 2

Urandom == 1 .. MaxTokens

SleepTimes == {1, 2}

\* displayed: "no" before the Javascript is displayed, then "unset" or "set", what the
\* buffer was when it was displayed
NoCall == [pc |-> "idle", token |-> "", timeout_message |-> "", created |-> 0,
           displayed |-> "no", deadline |-> 0, message |-> <<>>, outcome |-> NoOutcome]

InitBrowser ==
    /\ pc = "ready"
    /\ UnwrapIdle
    /\ SourceIdle
    /\ TraceIdle
    /\ MatchIdle
    /\ StorageIdle
    /\ sha3_trace = EmptyDict
    /\ LaterIdleExcept({"browser"})
    /\ br_host \in [colab : BOOLEAN, running_loop : BOOLEAN]
    /\ br_blocks = EmptyDict
    /\ br_call = NoCall
    /\ br_time = 0
    /\ br_calls = 0

BrowserFrame ==
    /\ UNCHANGED <<pc, sha3_trace, unwrap_vars, source_vars, trace_vars, match_vars,
                   storage_vars, br_host>>
    /\ LaterUnchangedExcept({"browser"})

\* token = _generate_token()
JavascriptCall ==
    /\ BrowserFrame
    /\ br_call.pc \in {"idle", "done"}
    /\ br_calls < MaxCalls
    /\ br_calls' = br_calls + 1
    /\ \E random \in Urandom, timeout_message \in TimeoutMessages :
          br_call' = [NoCall EXCEPT !.pc = "called",
                                    !.token = _generate_token(random),
                                    !.timeout_message = timeout_message]
    /\ br_time' = 0
    /\ UNCHANGED br_blocks

\* if colab_eval_js: return _parse_js_result(json.loads(colab_eval_js(js_code)))
ColabEvalJs ==
    /\ BrowserFrame
    /\ br_call.pc = "called"
    /\ br_host.colab
    /\ \E result \in SeqsUpTo(ReplyBytes, SHARED_MEMORY_LENGTH) :
          LET loaded == json_loads(result)
          IN  br_call' = [br_call EXCEPT
                  !.pc = "done",
                  !.message = result,
                  !.outcome = IF loaded.kind = "raise" THEN loaded
                              ELSE _parse_js_result(loaded.data)]
    /\ UNCHANGED <<br_blocks, br_time, br_calls>>

\* memory = SharedMemory(name=token, create=True, size=SHARED_MEMORY_LENGTH)
CreateSharedMemory ==
    /\ BrowserFrame
    /\ br_call.pc = "called"
    /\ ~br_host.colab
    /\ IF br_call.token \in DOMAIN br_blocks
       THEN /\ br_call' = [br_call EXCEPT !.pc = "done",
                                          !.outcome = Raise("FileExistsError", <<>>, "")]
            /\ UNCHANGED br_blocks
       ELSE /\ \E fresh \in Buffers : br_blocks' = DictSet(br_blocks, br_call.token, fresh)
            /\ br_call' = [br_call EXCEPT !.pc = "try", !.created = @ + 1]
    /\ UNCHANGED <<br_time, br_calls>>

\* memory.buf[:1] = NUL
SetBufferUnset ==
    /\ BrowserFrame
    /\ br_call.pc = "try"
    /\ br_blocks' = [br_blocks EXCEPT ![br_call.token][1] = NUL]
    /\ br_call' = [br_call EXCEPT !.pc = "display"]
    /\ UNCHANGED <<br_time, br_calls>>

\* display(Javascript(js_code))
Display ==
    /\ BrowserFrame
    /\ br_call.pc = "display"
    /\ br_call' = [br_call EXCEPT
           !.pc = "wait",
           !.displayed = IF startswith_nul(br_blocks[br_call.token]) THEN "unset"
                         ELSE "set"]
    /\ UNCHANGED <<br_blocks, br_time, br_calls>>

\* the frontend's callback, once per token, writes the reply into the block of that name
FrontendReply ==
    /\ BrowserFrame
    /\ br_call.displayed # "no"
    /\ br_call.token \in DOMAIN br_blocks
    /\ startswith_nul(br_blocks[br_call.token])
    /\ \E reply \in Buffers :
          /\ ~startswith_nul(reply)
          /\ br_blocks' = [br_blocks EXCEPT ![br_call.token] = reply]
    /\ UNCHANGED <<br_call, br_time, br_calls>>

\* _wait_buffer_set: loop = get_running_loop(); deadline = loop.time() + timeout
WaitBufferSet ==
    /\ BrowserFrame
    /\ br_call.pc = "wait"
    /\ br_call' = IF br_host.running_loop
                  THEN [br_call EXCEPT !.pc = "poll",
                                       !.deadline = br_time + CALLBACK_TOKEN_TIMEOUT]
                  ELSE [br_call EXCEPT !.pc = "finally",
                                       !.outcome = Raise("RuntimeError", <<>>, "")]
    /\ UNCHANGED <<br_blocks, br_time, br_calls>>

\* while buffer.tobytes().startswith(NUL):
Poll ==
    /\ BrowserFrame
    /\ br_call.pc = "poll"
    /\ br_call' = [br_call EXCEPT
           !.pc = IF startswith_nul(br_blocks[br_call.token]) THEN "deadline"
                  ELSE "read"]
    /\ UNCHANGED <<br_blocks, br_time, br_calls>>

\* if inner_loop.time() > deadline: raise TimeoutError(timeout_message)
CheckDeadline ==
    /\ BrowserFrame
    /\ br_call.pc = "deadline"
    /\ br_call' = IF br_time > br_call.deadline
                  THEN [br_call EXCEPT
                           !.pc = "finally",
                           !.outcome = Raise("TimeoutError", <<>>, br_call.timeout_message)]
                  ELSE [br_call EXCEPT !.pc = "sleep"]
    /\ UNCHANGED <<br_blocks, br_time, br_calls>>

\* await sleep(0.01)
Sleep ==
    /\ BrowserFrame
    /\ br_call.pc = "sleep"
    /\ \E elapsed \in SleepTimes : br_time' = br_time + elapsed
    /\ br_call' = [br_call EXCEPT !.pc = "poll"]
    /\ UNCHANGED <<br_blocks, br_calls>>

\* message_bytes = buffer.tobytes().split(NUL)[0];
\* return _parse_js_result(json.loads(message_bytes.decode()))
ReadMessage ==
    /\ BrowserFrame
    /\ br_call.pc = "read"
    /\ LET message_bytes == split_nul_first(br_blocks[br_call.token])
           loaded == json_loads(message_bytes)
       IN  br_call' = [br_call EXCEPT
               !.pc = "finally",
               !.message = message_bytes,
               !.outcome = IF loaded.kind = "raise" THEN loaded
                           ELSE _parse_js_result(loaded.data)]
    /\ UNCHANGED <<br_blocks, br_time, br_calls>>

\* finally: memory.unlink()
Unlink ==
    /\ BrowserFrame
    /\ br_call.pc = "finally"
    /\ br_blocks' = unlink(br_blocks, br_call.token)
    /\ br_call' = [br_call EXCEPT !.pc = "done"]
    /\ UNCHANGED <<br_time, br_calls>>

NextBrowser ==
    \/ JavascriptCall
    \/ ColabEvalJs
    \/ CreateSharedMemory
    \/ SetBufferUnset
    \/ Display
    \/ FrontendReply
    \/ WaitBufferSet
    \/ Poll
    \/ CheckDeadline
    \/ Sleep
    \/ ReadMessage
    \/ Unlink

SpecBrowser == InitBrowser /\ [][NextBrowser]_vars

\* the steps of the call itself are taken sooner or later; the frontend need not reply
SpecBrowserFair ==
    /\ SpecBrowser
    /\ WF_vars(WaitBufferSet \/ Poll \/ CheckDeadline \/ Sleep \/ ReadMessage)

\* _wait_buffer_set has been entered and has not ended
Waiting == br_call.pc \in {"wait", "poll", "deadline", "sleep", "read"}

\* _wait_buffer_set has ended, by returning or by raising
WaitEnded == br_call.pc \in {"finally", "done"} /\ br_call.displayed # "no"

\* message is what comes before the first NUL of bytes, all of bytes if there is none
BeforeFirstNul(message, bytes) ==
    \E n \in 0 .. Len(bytes) :
        /\ message = SubSeq(bytes, 1, n)
        /\ \A i \in 1 .. n : bytes[i] # NUL
        /\ n = Len(bytes) \/ bytes[n + 1] = NUL

\* the buffer is read while its block is linked, and was set when the message was read
ReadWhenSet ==
    /\ br_call.message # <<>>
    /\ br_call.pc = "finally" =>
          /\ br_blocks[br_call.token][1] # NUL
          /\ BeforeFirstNul(br_call.message, br_blocks[br_call.token])

TimedOut ==
    /\ br_call.outcome = Raise("TimeoutError", <<>>, br_call.timeout_message)
    /\ br_time > br_call.deadline
    /\ br_call.message = <<>>

\* a poll that finds the buffer unset after the deadline does not go on to sleep
NoPollPastDeadline == br_call.pc = "sleep" => br_time <= br_call.deadline

C22_OneBlockPerCallUnlinkedAtEnd ==
    ~br_host.colab =>
        /\ br_call.pc \in {"idle", "called", "done"} => DOMAIN br_blocks = {}
        /\ br_call.pc \in {"try", "display", "wait", "poll", "deadline", "sleep", "read",
                           "finally"} =>
              /\ DOMAIN br_blocks = {br_call.token}
              /\ br_call.created = 1
        /\ br_call.pc = "done" => br_call.created = 1
        /\ br_call.displayed \in {"no", "unset"}
        /\ br_call.pc \in {"wait", "poll", "deadline", "sleep", "read", "finally"} =>
              br_call.displayed = "unset"

\* a second call has ended in a timeout and left no block behind
C22_Witness ==
    /\ ~br_host.colab
    /\ br_calls > 1
    /\ br_call.pc = "done"
    /\ br_call.outcome.exc = "TimeoutError"
    /\ DOMAIN br_blocks = {}

====
